---------------------------- MODULE Spec2Model ----------------------------
(***************************************************************************)
(* Townscaper lattice-to-topology pipeline: the triangular lattice         *)
(* (TownscaperLattice.ts), flood-fill clustering (TownscaperClustering.ts) *)
(* and pairwise merging (TownscaperPairing.ts).                            *)
(*                                                                         *)
(* Conventions.  Ids are 0-based as in the source; a TypeScript array is a *)
(* TLA+ sequence whose element i+1 holds the entry of id i.  World-space   *)
(* positions are kept exactly, in lattice units: x in units of             *)
(* horizontalSpacing/6 and y in units of verticalSpacing/3, so that vertex *)
(* positions and triangle centroids are integer pairs.  A number in [0,1)  *)
(* returned by the random source is k/RandomLevels, kept as k.  A merge    *)
(* probability is a record: a finite rational num/den, or NaN, or an       *)
(* infinity.                                                               *)
(***************************************************************************)
EXTENDS Integers, Sequences, FiniteSets

(***************************************************************************)
(* Bounds of the model.                                                    *)
(***************************************************************************)
\* the lattice builder alone runs on width 0..MaxLatticeWidth and height
\* 0..MaxLatticeHeight
MaxLatticeWidth == 5
MaxLatticeHeight == 3
\* addTab draws at most MaxTabDraws times
MaxTabDraws == 3
\* the debug page's area (900 x 600 in the source), scaled down
PageWidth == 4
PageHeight == 4
\* a border of the point generator holds at most MaxCells whole triangles
MaxCells == 3
\* a border holds the centroids of at most MaxInside triangles
MaxInside == 4
\* the random source returns k/RandomLevels, k in 0..RandomLevels-1
RandomLevels == 4

\* spacing floor of createTownscaperLattice
MinSpacing == 4
\* TRIANGULAR_VERTICAL_RATIO = sin(60 deg) = VerticalRatioNum / VerticalRatioDen
VerticalRatioNum == 8660254
VerticalRatioDen == 10000000

\* JavaScript's null for a value that is otherwise a number: null is <<>>, the
\* number n is <<n>>
Null == <<>>
Some(n) == <<n>>

(***************************************************************************)
(* Generic helpers for arrays.                                             *)
(***************************************************************************)
Max(a, b) == IF a >= b THEN a ELSE b

\* Math.ceil(n / d) for d > 0
CeilDiv(n, d) == IF n % d = 0 THEN n \div d ELSE (n \div d) + 1

Range(s) == {s[i] : i \in 1..Len(s)}

Includes(s, x) == \E i \in 1..Len(s) : s[i] = x

MinOf(S) == CHOOSE x \in S : \A y \in S : x <= y

RECURSIVE SortAsc(_)
\* Array.from(set).sort((a, b) => a - b)
SortAsc(S) == IF S = {} THEN <<>> ELSE <<MinOf(S)>> \o SortAsc(S \ {MinOf(S)})

RECURSIVE InsertSorted(_, _)
InsertSorted(s, x) ==
    IF s = <<>> THEN <<x>>
    ELSE IF x < Head(s) THEN <<x>> \o s
    ELSE <<Head(s)>> \o InsertSorted(Tail(s), x)

\* mutant of SortNumbers: the array is left in its order
keepOrder(s) == s

RECURSIVE SortNumbers(_)
\* values.sort((a, b) => a - b) on an array that may hold duplicates
SortNumbers(s) == IF s = <<>> THEN <<>> ELSE InsertSorted(SortNumbers(Tail(s)), Head(s))

(***************************************************************************)
(* TownscaperLattice.ts                                                    *)
(***************************************************************************)
\* isPointInBoundary(point, border): the border is given by the set of
\* lattice-unit points it contains.
isPointInBoundary(point, border) == point \in border

\* mutant of createEdgeKey: the key keeps the traversal direction
directedEdgeKey(a, b) == <<a, b>>

\* createEdgeKey: the canonical (min, max) key of an undirected edge
createEdgeKey(a, b) == IF a < b THEN <<a, b>> ELSE <<b, a>>

spacingOf(pieceSize) == Max(pieceSize, MinSpacing)

\* mutant of columnLimitOf: Math.floor instead of Math.ceil
columnLimitFloor(width, pieceSize) ==
    (width + spacingOf(pieceSize) * 2) \div spacingOf(pieceSize)

\* mutant of columnLimitOf: the overscan columns are missing
columnLimitNoOverscan(width, pieceSize) == CeilDiv(width, spacingOf(pieceSize))

columnLimitOf(width, pieceSize) ==
    CeilDiv(width + spacingOf(pieceSize) * 2, spacingOf(pieceSize))

\* mutant of rowLimitOf: Math.floor instead of Math.ceil
rowLimitFloor(height, pieceSize) ==
    (height * VerticalRatioDen + 2 * spacingOf(pieceSize) * VerticalRatioNum)
        \div (spacingOf(pieceSize) * VerticalRatioNum)

\* Math.ceil((height + overscanY * 2) / verticalSpacing) with
\* verticalSpacing = spacing * TRIANGULAR_VERTICAL_RATIO
rowLimitOf(height, pieceSize) ==
    CeilDiv(height * VerticalRatioDen + 2 * spacingOf(pieceSize) * VerticalRatioNum,
            spacingOf(pieceSize) * VerticalRatioNum)

\* position of the vertex at (rowIndex, columnIndex), in lattice units
basePoint(rowIndex, columnIndex) ==
    << 6 * (columnIndex - 1) + (IF rowIndex % 2 = 0 THEN 0 ELSE 3),
       3 * (rowIndex - 1) >>

\* the vertices array: row-major, ids in push order
latticeVertices(rowLimit, columnLimit, border) ==
    [ n \in 1..((rowLimit + 1) * (columnLimit + 1)) |->
        LET rowIndex == (n - 1) \div (columnLimit + 1)
            columnIndex == (n - 1) % (columnLimit + 1)
        IN [ id |-> n - 1,
             row |-> rowIndex,
             column |-> columnIndex,
             position |-> basePoint(rowIndex, columnIndex),
             insideBoundary |-> isPointInBoundary(basePoint(rowIndex, columnIndex), border) ] ]

\* indexByCoord.has(`${row}:${column}`): the key was set by the vertex loops
hasCoord(rowLimit, columnLimit, coord) ==
    coord[1] \in 0..rowLimit /\ coord[2] \in 0..columnLimit

\* indexByCoord.get(`${row}:${column}`) for a key that was set
indexByCoord(rowLimit, columnLimit, coord) == coord[1] * (columnLimit + 1) + coord[2]

\* mutant of triangleCalls: the second triangle of an odd row lists its last
\* two vertices in the other order
triangleCallsMixed(rowLimit, columnLimit) ==
    [ n \in 1..(2 * rowLimit * columnLimit) |->
        LET row == (n - 1) \div (2 * columnLimit)
            column == ((n - 1) % (2 * columnLimit)) \div 2
            first == (n - 1) % 2 = 0
        IN IF row % 2 = 0
           THEN IF first
                THEN << <<row, column>>, <<row, column + 1>>, <<row + 1, column>> >>
                ELSE << <<row, column + 1>>, <<row + 1, column + 1>>, <<row + 1, column>> >>
           ELSE IF first
                THEN << <<row, column>>, <<row + 1, column + 1>>, <<row + 1, column>> >>
                ELSE << <<row, column>>, <<row + 1, column + 1>>, <<row, column + 1>> >> ]

\* the addTriangle calls of the row/column loops, in call order
triangleCalls(rowLimit, columnLimit) ==
    [ n \in 1..(2 * rowLimit * columnLimit) |->
        LET row == (n - 1) \div (2 * columnLimit)
            column == ((n - 1) % (2 * columnLimit)) \div 2
            first == (n - 1) % 2 = 0
        IN IF row % 2 = 0
           THEN IF first
                THEN << <<row, column>>, <<row, column + 1>>, <<row + 1, column>> >>
                ELSE << <<row, column + 1>>, <<row + 1, column + 1>>, <<row + 1, column>> >>
           ELSE IF first
                THEN << <<row, column>>, <<row + 1, column + 1>>, <<row + 1, column>> >>
                ELSE << <<row, column>>, <<row, column + 1>>, <<row + 1, column + 1>> >> ]

\* index in edgeRecords (insertion order) of the record stored under key, or 0
recordIndex(edgeRecords, key) ==
    IF \E i \in 1..Len(edgeRecords) : edgeRecords[i].key = key
    THEN CHOOSE i \in 1..Len(edgeRecords) : edgeRecords[i].key = key
    ELSE 0

RECURSIVE registerEdges(_, _, _)
\* the loop over edgePairs of addTriangle
registerEdges(edgeRecords, edgePairs, triangleId) ==
    IF edgePairs = <<>> THEN edgeRecords
    ELSE LET pair == Head(edgePairs)
             key == createEdgeKey(pair[1], pair[2])
             at == recordIndex(edgeRecords, key)
             next == IF at # 0
                     THEN [edgeRecords EXCEPT ![at].triangles = Append(@, triangleId)]
                     ELSE Append(edgeRecords,
                                 [key |-> key, vertices |-> pair, triangles |-> <<triangleId>>])
         IN registerEdges(next, Tail(edgePairs), triangleId)

\* mutant of addTriangle: a triangle whose centroid is outside the border is
\* not added
addTriangleInsideOnly(st, vertices, rowLimit, columnLimit, border, coords) ==
    LET aIndex == indexByCoord(rowLimit, columnLimit, coords[1])
        bIndex == indexByCoord(rowLimit, columnLimit, coords[2])
        cIndex == indexByCoord(rowLimit, columnLimit, coords[3])
    IN IF \E i \in 1..3 : ~hasCoord(rowLimit, columnLimit, coords[i]) THEN st
       ELSE LET a == vertices[aIndex + 1].position
                b == vertices[bIndex + 1].position
                c == vertices[cIndex + 1].position
                centroid == << (a[1] + b[1] + c[1]) \div 3, (a[2] + b[2] + c[2]) \div 3 >>
                triangleId == Len(st.triangles)
            IN IF ~isPointInBoundary(centroid, border) THEN st
               ELSE [ triangles |-> Append(st.triangles,
                         [ id |-> triangleId,
                           vertices |-> <<aIndex, bIndex, cIndex>>,
                           centroid |-> centroid,
                           neighbors |-> <<>>,
                           insideBoundary |-> TRUE ]),
                      edgeRecords |-> registerEdges(st.edgeRecords,
                         << <<aIndex, bIndex>>, <<bIndex, cIndex>>, <<cIndex, aIndex>> >>,
                         triangleId) ]

\* addTriangle(aCoord, bCoord, cCoord) on the state [triangles, edgeRecords]
addTriangle(st, vertices, rowLimit, columnLimit, border, coords) ==
    LET aIndex == indexByCoord(rowLimit, columnLimit, coords[1])
        bIndex == indexByCoord(rowLimit, columnLimit, coords[2])
        cIndex == indexByCoord(rowLimit, columnLimit, coords[3])
    IN IF \E i \in 1..3 : ~hasCoord(rowLimit, columnLimit, coords[i]) THEN st
       ELSE LET a == vertices[aIndex + 1].position
                b == vertices[bIndex + 1].position
                c == vertices[cIndex + 1].position
                centroid == << (a[1] + b[1] + c[1]) \div 3, (a[2] + b[2] + c[2]) \div 3 >>
                triangleId == Len(st.triangles)
            IN [ triangles |-> Append(st.triangles,
                    [ id |-> triangleId,
                      vertices |-> <<aIndex, bIndex, cIndex>>,
                      centroid |-> centroid,
                      neighbors |-> <<>>,
                      insideBoundary |-> isPointInBoundary(centroid, border) ]),
                 edgeRecords |-> registerEdges(st.edgeRecords,
                    << <<aIndex, bIndex>>, <<bIndex, cIndex>>, <<cIndex, aIndex>> >>,
                    triangleId) ]

RECURSIVE addTriangles(_, _, _, _, _, _)
addTriangles(st, vertices, rowLimit, columnLimit, border, calls) ==
    IF calls = <<>> THEN st
    ELSE addTriangles(addTriangle(st, vertices, rowLimit, columnLimit, border, Head(calls)),
                      vertices, rowLimit, columnLimit, border, Tail(calls))

\* mutant of latticeEdges: touchesBoundary is set on the rim only
latticeEdgesRimOnly(edgeRecords, triangles) ==
    [ n \in 1..Len(edgeRecords) |->
        [ id |-> n - 1,
          vertices |-> edgeRecords[n].vertices,
          triangles |-> edgeRecords[n].triangles,
          touchesBoundary |-> Len(edgeRecords[n].triangles) < 2 ] ]

\* mutant of latticeEdges: the vertices are those of the canonical key
latticeEdgesCanonical(edgeRecords, triangles) ==
    [ n \in 1..Len(edgeRecords) |->
        [ id |-> n - 1,
          vertices |-> edgeRecords[n].key,
          triangles |-> edgeRecords[n].triangles,
          touchesBoundary |->
              \/ Len(edgeRecords[n].triangles) < 2
              \/ \E i \in 1..Len(edgeRecords[n].triangles) :
                    ~triangles[edgeRecords[n].triangles[i] + 1].insideBoundary ] ]

\* edgeRecords.forEach(...): the edges array, ids in insertion order
latticeEdges(edgeRecords, triangles) ==
    [ n \in 1..Len(edgeRecords) |->
        [ id |-> n - 1,
          vertices |-> edgeRecords[n].vertices,
          triangles |-> edgeRecords[n].triangles,
          touchesBoundary |->
              \/ Len(edgeRecords[n].triangles) < 2
              \/ \E i \in 1..Len(edgeRecords[n].triangles) :
                    ~triangles[edgeRecords[n].triangles[i] + 1].insideBoundary ] ]

\* mutant of neighborSetOf: the test `triangleId !== triangle.id` is missing
neighborSetWithSelf(triangle, edgeRecords) ==
    UNION { LET at == recordIndex(edgeRecords,
                                  createEdgeKey(triangle.vertices[i],
                                                triangle.vertices[(i % 3) + 1]))
            IN IF at = 0 THEN {} ELSE Range(edgeRecords[at].triangles)
          : i \in 1..3 }

\* neighborSet of one triangle: the other triangles of the records of its sides
neighborSetOf(triangle, edgeRecords) ==
    UNION { LET start == triangle.vertices[i]
                end == triangle.vertices[(i % 3) + 1]
                at == recordIndex(edgeRecords, createEdgeKey(start, end))
            IN IF at = 0 THEN {}
               ELSE Range(edgeRecords[at].triangles) \ {triangle.id}
          : i \in 1..3 }

\* "Populate triangle neighbor lists now that all edges are known."
populateNeighbors(triangles, edgeRecords) ==
    [ n \in 1..Len(triangles) |->
        [triangles[n] EXCEPT !.neighbors = SortAsc(neighborSetOf(triangles[n], edgeRecords))] ]

createTownscaperLattice(width, height, pieceSize, border) ==
    LET columnLimit == columnLimitOf(width, pieceSize)
        rowLimit == rowLimitOf(height, pieceSize)
        vertices == latticeVertices(rowLimit, columnLimit, border)
        built == addTriangles([triangles |-> <<>>, edgeRecords |-> <<>>], vertices,
                              rowLimit, columnLimit, border,
                              triangleCalls(rowLimit, columnLimit))
    IN [ vertices |-> vertices,
         edges |-> latticeEdges(built.edgeRecords, built.triangles),
         triangles |-> populateNeighbors(built.triangles, built.edgeRecords),
         horizontalSpacing |-> spacingOf(pieceSize),
         verticalSpacing |-> [num |-> spacingOf(pieceSize) * VerticalRatioNum,
                              den |-> VerticalRatioDen],
         rowCount |-> rowLimit + 1,
         columnCount |-> columnLimit + 1 ]


(***************************************************************************)
(* Random source and shuffleInPlace (TownscaperClustering.ts and           *)
(* TownscaperPairing.ts hold the same function).                           *)
(***************************************************************************)
\* the values random() can return: k stands for k / RandomLevels
RandomValues == 0..(RandomLevels - 1)

\* mulberry32(seed): the state of a fresh generator for the seed.  The
\* generator is a stateful source consumed strictly sequentially; it is kept
\* as a small congruential generator of period 16.
mulberry32(seedValue) == seedValue % 16

\* the state of the generator after one call of random()
randomNext(generator) == (generator * 5 + 3) % 16

\* the value k (for k / RandomLevels) returned by the call that leaves the
\* generator in this state
randomValue(generator) == (generator * RandomLevels) \div 16

\* Math.floor(random() * (index + 1))
swapIndexOf(r, index) == (r * (index + 1)) \div RandomLevels

\* mutant of shuffleSwap: values[swapIndex] is not written back
shuffleOverwrite(values, index, swapIndex) ==
    [values EXCEPT ![index + 1] = values[swapIndex + 1]]

\* one iteration of the loop of shuffleInPlace: swap values[index] and
\* values[swapIndex] (0-based positions)
shuffleSwap(values, index, swapIndex) ==
    [values EXCEPT ![index + 1] = values[swapIndex + 1],
                   ![swapIndex + 1] = values[index + 1]]

\* the loop variable of shuffleInPlace on entry
shuffleBegin(values) == [values |-> values, index |-> Len(values) - 1]

NoShuffle == [values |-> <<>>, index |-> 0]

(***************************************************************************)
(* TownscaperClustering.ts                                                 *)
(***************************************************************************)
Finite(num, den) == [kind |-> "finite", num |-> num, den |-> den]
NaN == [kind |-> "NaN", num |-> 0, den |-> 1]
PlusInfinity == [kind |-> "+Infinity", num |-> 0, den |-> 1]
MinusInfinity == [kind |-> "-Infinity", num |-> 0, den |-> 1]

\* Math.round of the finite number value
roundOf(value) == (2 * value.num + value.den) \div (2 * value.den)

clamp01(value) ==
    IF value.kind # "finite" THEN Finite(0, 1)
    ELSE IF value.num <= 0 THEN Finite(0, 1)
    ELSE IF value.num >= value.den THEN Finite(1, 1)
    ELSE value

\* mutant of mergeAccepted: the comparison is inverted
mergeAcceptedInverted(r, mergeChance) == r * mergeChance.den >= mergeChance.num * RandomLevels

\* random() <= mergeChance, for the draw r / RandomLevels
mergeAccepted(r, mergeChance) == r * mergeChance.den <= mergeChance.num * RandomLevels

\* new Array(n).fill(-1)
unassigned(n) == [i \in 1..n |-> -1]

\* mutant of insideNeighbors: the insideBoundary filter is missing
allNeighbors(lat, current) == lat.triangles[current + 1].neighbors

\* mutant of insideNeighbors: every other in-boundary triangle, neighbor or not
insideTriangles(lat, current) ==
    LET inside == SelectSeq(lat.triangles,
                            LAMBDA triangle : triangle.insideBoundary /\ triangle.id # current)
    IN [i \in 1..Len(inside) |-> inside[i].id]

\* lattice.triangles[current].neighbors.filter(n => lattice.triangles[n]?.insideBoundary)
insideNeighbors(lat, current) ==
    SelectSeq(lat.triangles[current + 1].neighbors,
              LAMBDA neighborId : /\ neighborId + 1 \in 1..Len(lat.triangles)
                                  /\ lat.triangles[neighborId + 1].insideBoundary)

\* mutant of edgeClusterList: only the first incident triangle is looked at
edgeClusterListFirstOnly(edge, assignments) ==
    SortAsc({assignments[edge.triangles[1] + 1]} \ {-1})

\* clusterList of one edge: the clusters of its triangles, ascending
edgeClusterList(edge, assignments) ==
    SortAsc({assignments[edge.triangles[i] + 1] : i \in 1..Len(edge.triangles)} \ {-1})

edgeToClustersOf(lat, assignments) ==
    [n \in 1..Len(lat.edges) |-> edgeClusterList(lat.edges[n], assignments)]

\* cluster.edgeIds: pushed in edge order, then sorted
clusterEdgeIds(clusterId, edgeToClusters) ==
    SortNumbers(SelectSeq([n \in 1..Len(edgeToClusters) |-> n - 1],
                          LAMBDA edgeId : Includes(edgeToClusters[edgeId + 1], clusterId)))

\* the TownscaperClusteringResult built after the triangle loop
clusteringResult(lat, clusterMembers, assignments) ==
    [ clusters |-> [c \in 1..Len(clusterMembers) |->
                      [ id |-> c - 1,
                        triangleIds |-> clusterMembers[c],
                        edgeIds |-> clusterEdgeIds(c - 1, edgeToClustersOf(lat, assignments)) ]],
      triangleToCluster |-> assignments,
      edgeToClusters |-> edgeToClustersOf(lat, assignments) ]

\* the locals of clusterTownscaperLattice on entry, with the random source
floodBegin(lat, random) ==
    [ pc |-> "for", assignments |-> unassigned(Len(lat.triangles)), clusterMembers |-> <<>>,
      cursor |-> 0, stack |-> <<>>, members |-> <<>>, values |-> <<>>, index |-> 0,
      neighborIndex |-> 0, random |-> random ]

\* one step of clusterTownscaperLattice on its locals st, drawing from the
\* generator st.random: the steps are those of the actions ClusterSeed to
\* ClusterClose
floodStep(lat, chance, st) ==
    IF st.pc = "for"
    THEN IF st.cursor = Len(lat.triangles) THEN [st EXCEPT !.pc = "done"]
         ELSE LET triangle == lat.triangles[st.cursor + 1]
              IN IF ~triangle.insideBoundary \/ st.assignments[triangle.id + 1] # -1
                 THEN [st EXCEPT !.cursor = st.cursor + 1]
                 ELSE [st EXCEPT !.stack = <<triangle.id>>,
                                 !.assignments[triangle.id + 1] = Len(st.clusterMembers),
                                 !.members = <<>>,
                                 !.pc = "while"]
    ELSE IF st.pc = "while"
    THEN IF st.stack = <<>>
         THEN [st EXCEPT !.clusterMembers = Append(@, SortNumbers(st.members)),
                         !.members = <<>>,
                         !.cursor = st.cursor + 1,
                         !.pc = "for"]
         ELSE LET current == st.stack[Len(st.stack)]
              IN [st EXCEPT !.stack = SubSeq(st.stack, 1, Len(st.stack) - 1),
                            !.members = Append(@, current),
                            !.values = insideNeighbors(lat, current),
                            !.index = Len(insideNeighbors(lat, current)) - 1,
                            !.neighborIndex = 0,
                            !.pc = "neighbors"]
    ELSE IF st.index > 0
    THEN [st EXCEPT !.values = shuffleSwap(st.values, st.index,
                                           swapIndexOf(randomValue(randomNext(st.random)),
                                                       st.index)),
                    !.index = st.index - 1,
                    !.random = randomNext(st.random)]
    ELSE IF st.neighborIndex = Len(st.values)
    THEN [st EXCEPT !.values = <<>>, !.index = 0, !.neighborIndex = 0, !.pc = "while"]
    ELSE LET neighborId == st.values[st.neighborIndex + 1]
         IN IF st.assignments[neighborId + 1] # -1
            THEN [st EXCEPT !.neighborIndex = st.neighborIndex + 1]
            ELSE IF mergeAccepted(randomValue(randomNext(st.random)), chance)
            THEN [st EXCEPT !.assignments[neighborId + 1] = Len(st.clusterMembers),
                            !.stack = Append(@, neighborId),
                            !.neighborIndex = st.neighborIndex + 1,
                            !.random = randomNext(st.random)]
            ELSE [st EXCEPT !.neighborIndex = st.neighborIndex + 1,
                            !.random = randomNext(st.random)]

RECURSIVE floodRun(_, _, _)
floodRun(lat, chance, st) ==
    IF st.pc = "done" THEN st ELSE floodRun(lat, chance, floodStep(lat, chance, st))

\* clusterTownscaperLattice({ lattice, mergeChance: value, random }) as one
\* call, for a random source in state random
clusterTownscaperLattice(lat, value, random) ==
    LET final == floodRun(lat, clamp01(value), floodBegin(lat, random))
    IN clusteringResult(lat, final.clusterMembers, final.assignments)

NoClustering == [clusters |-> <<>>, triangleToCluster |-> <<>>, edgeToClusters |-> <<>>]

(***************************************************************************)
(* TownscaperPairing.ts                                                    *)
(***************************************************************************)
RECURSIVE repeat(_, _)
repeat(x, n) == IF n = 0 THEN <<>> ELSE <<x>> \o repeat(x, n - 1)

RECURSIVE edgesOfTriangle(_, _, _)
\* triangleEdges[triangleId]: lattice.edges.forEach pushes edge.id once for
\* every occurrence of the triangle in edge.triangles (edges from position n on)
edgesOfTriangle(edges, triangleId, n) ==
    IF n > Len(edges) THEN <<>>
    ELSE repeat(edges[n].id,
                Cardinality({i \in 1..Len(edges[n].triangles) :
                                edges[n].triangles[i] = triangleId}))
         \o edgesOfTriangle(edges, triangleId, n + 1)

triangleEdgesOf(lat) ==
    [t \in 1..Len(lat.triangles) |-> edgesOfTriangle(lat.edges, t - 1, 1)]

\* mutant of findSharedEdgeId: the first candidate edge, shared or not
firstCandidateEdge(candidateEdges, neighborEdges) ==
    IF candidateEdges = <<>> THEN Null ELSE Some(Head(candidateEdges))

RECURSIVE findSharedEdgeId(_, _)
findSharedEdgeId(candidateEdges, neighborEdges) ==
    IF candidateEdges = <<>> THEN Null
    ELSE IF Includes(neighborEdges, Head(candidateEdges)) THEN Some(Head(candidateEdges))
    ELSE findSharedEdgeId(Tail(candidateEdges), neighborEdges)

\* lattice.triangles.filter(t => t.insideBoundary).map(t => t.id)
eligibleOf(lat) ==
    LET inside == SelectSeq(lat.triangles, LAMBDA triangle : triangle.insideBoundary)
    IN [i \in 1..Len(inside) |-> inside[i].id]

\* mutant of availableNeighborsOf: the test `assignments[n] === -1` is missing
insideNeighborsAssignedOrNot(lat, assigned, triangleId) ==
    SelectSeq(lat.triangles[triangleId + 1].neighbors,
              LAMBDA neighborId : lat.triangles[neighborId + 1].insideBoundary)

\* neighborIds.filter(n => lattice.triangles[n]?.insideBoundary && assignments[n] === -1)
availableNeighborsOf(lat, assigned, triangleId) ==
    SelectSeq(lat.triangles[triangleId + 1].neighbors,
              LAMBDA neighborId : /\ neighborId + 1 \in 1..Len(lat.triangles)
                                  /\ lat.triangles[neighborId + 1].insideBoundary
                                  /\ assigned[neighborId + 1] = -1)

\* mutant of partnerOf: a lone available neighbor is not taken
partnerOfSeveral(availableNeighbors) ==
    IF Len(availableNeighbors) > 1 THEN Some(availableNeighbors[1]) ELSE Null

\* availableNeighbors.length > 0 ? availableNeighbors[0] : null
partnerOf(availableNeighbors) ==
    IF Len(availableNeighbors) > 0 THEN Some(availableNeighbors[1]) ELSE Null

\* the pair pushed for triangleId and its partner (null or a triangle id)
pairOf(pairId, triangleId, partner, lat) ==
    IF partner # Null
    THEN [ id |-> pairId,
           triangleIds |-> IF triangleId < partner[1] THEN <<triangleId, partner[1]>>
                           ELSE <<partner[1], triangleId>>,
           sharedEdgeId |-> findSharedEdgeId(triangleEdgesOf(lat)[triangleId + 1],
                                             triangleEdgesOf(lat)[partner[1] + 1]) ]
    ELSE [ id |-> pairId, triangleIds |-> <<triangleId>>, sharedEdgeId |-> Null ]

\* mutant of assignPair: the partner is not marked as assigned
assignFirstOnly(assigned, pair) ==
    [assigned EXCEPT ![pair.triangleIds[1] + 1] = pair.id]

\* assignments after the pair is recorded
assignPair(assigned, pair) ==
    [t \in 1..Len(assigned) |-> IF Includes(pair.triangleIds, t - 1) THEN pair.id ELSE assigned[t]]

\* removedEdgeIds.sort((a, b) => a - b) and the returned record
pairingResult(pairList, assigned, removed) ==
    [ pairs |-> pairList, triangleToPair |-> assigned, removedEdgeIds |-> SortNumbers(removed) ]

NoPairing == [pairs |-> <<>>, triangleToPair |-> <<>>, removedEdgeIds |-> <<>>]

(***************************************************************************)
(* TownscaperPointGenerator.ts.  A position of the point generator is the  *)
(* point (x / d, y / d) in lattice units, kept in lowest terms as          *)
(* <<x, y, d>> with d > 0, so that the mean of centroids is exact.         *)
(***************************************************************************)
Min(a, b) == IF a <= b THEN a ELSE b

Abs(n) == IF n < 0 THEN -n ELSE n

RECURSIVE GCD(_, _)
GCD(a, b) == IF b = 0 THEN a ELSE GCD(b, a % b)

\* the point (x / d, y / d) for d > 0
pointOf(x, y, d) ==
    LET g == GCD(GCD(Abs(x), Abs(y)), d)
    IN << x \div g, y \div g, d \div g >>

\* the sum p + q of two points, before the division by a count
addPoint(p, q) == << p[1] * q[3] + q[1] * p[3], p[2] * q[3] + q[2] * p[3], p[3] * q[3] >>

\* Math.min(100, Math.max(0, value))
clampPercentage(value) == Min(100, Max(0, value))

\* clampPercentage(mergeProbability) / 100
pointMergeChance(mergeProbability) == Finite(clampPercentage(mergeProbability), 100)

\* random() < mergeChance, for the draw r / RandomLevels
pointMergeAccepted(r, chance) == r * chance.den < chance.num * RandomLevels

\* generateLattice: the candidates inside the border, row-major, with the
\* limits of the loops (the same formulas as createTownscaperLattice)
generateLattice(w, h, p, b) ==
    LET columns == columnLimitOf(w, p)
        rows == rowLimitOf(h, p)
        candidates ==
            [ n \in 1..((rows + 1) * (columns + 1)) |->
                LET rowIndex == (n - 1) \div (columns + 1)
                    columnIndex == (n - 1) % (columns + 1)
                IN [ row |-> rowIndex,
                     column |-> columnIndex,
                     position |-> pointOf(basePoint(rowIndex, columnIndex)[1],
                                          basePoint(rowIndex, columnIndex)[2], 1) ] ]
    IN [ points |-> SelectSeq(candidates,
                              LAMBDA candidate : isPointInBoundary(candidate.position, b)),
         rowLimit |-> rows,
         columnLimit |-> columns ]

\* indexByCoord.get(`${row}:${column}`) on the kept points: undefined is Null
pointIndexByCoord(points, coord) ==
    IF \E i \in 1..Len(points) : points[i].row = coord[1] /\ points[i].column = coord[2]
    THEN Some((CHOOSE i \in 1..Len(points) :
                  points[i].row = coord[1] /\ points[i].column = coord[2]) - 1)
    ELSE Null

\* Set.prototype.add on a set kept in insertion order
addToSet(s, x) == IF Includes(s, x) THEN s ELSE Append(s, x)

\* edgeToTriangle.get(edgeKey): position of the entry, or 0
edgeToTriangleIndex(edgeToTriangle, key) ==
    IF \E i \in 1..Len(edgeToTriangle) : edgeToTriangle[i].key = key
    THEN CHOOSE i \in 1..Len(edgeToTriangle) : edgeToTriangle[i].key = key
    ELSE 0

RECURSIVE linkEdges(_, _, _)
\* the loop over edges of tryAddTriangle, on [triangles, adjacency, edgeToTriangle]
linkEdges(st, edges, triangleIndex) ==
    IF edges = <<>> THEN st
    ELSE LET key == createEdgeKey(Head(edges)[1], Head(edges)[2])
             at == edgeToTriangleIndex(st.edgeToTriangle, key)
             next ==
                 IF at # 0
                 THEN LET neighborIndex == st.edgeToTriangle[at].triangle
                      IN [st EXCEPT !.adjacency =
                            [[@ EXCEPT ![triangleIndex + 1] = addToSet(@, neighborIndex)]
                                EXCEPT ![neighborIndex + 1] = addToSet(@, triangleIndex)]]
                 ELSE [st EXCEPT !.edgeToTriangle =
                            Append(@, [key |-> key, triangle |-> triangleIndex])]
         IN linkEdges(next, Tail(edges), triangleIndex)

\* tryAddTriangle(aCoord, bCoord, cCoord)
tryAddTriangle(st, latticePoints, border, coords) ==
    LET aIndex == pointIndexByCoord(latticePoints, coords[1])
        bIndex == pointIndexByCoord(latticePoints, coords[2])
        cIndex == pointIndexByCoord(latticePoints, coords[3])
    IN IF aIndex = Null \/ bIndex = Null \/ cIndex = Null THEN st
       ELSE LET a == latticePoints[aIndex[1] + 1].position
                b == latticePoints[bIndex[1] + 1].position
                c == latticePoints[cIndex[1] + 1].position
                sum == addPoint(addPoint(a, b), c)
                centroid == pointOf(sum[1], sum[2], sum[3] * 3)
                triangleIndex == Len(st.triangles)
            IN IF ~isPointInBoundary(centroid, border) THEN st
               ELSE linkEdges(
                        [ triangles |-> Append(st.triangles,
                              [ vertices |-> <<aIndex[1], bIndex[1], cIndex[1]>>,
                                centroid |-> centroid ]),
                          adjacency |-> Append(st.adjacency, <<>>),
                          edgeToTriangle |-> st.edgeToTriangle ],
                        << <<aIndex[1], bIndex[1]>>, <<bIndex[1], cIndex[1]>>,
                           <<cIndex[1], aIndex[1]>> >>,
                        triangleIndex)

RECURSIVE tryAddTriangles(_, _, _, _)
tryAddTriangles(st, latticePoints, border, calls) ==
    IF calls = <<>> THEN st
    ELSE tryAddTriangles(tryAddTriangle(st, latticePoints, border, Head(calls)),
                         latticePoints, border, Tail(calls))

\* buildTriangleCells: the row/column loops make the calls of triangleCalls
buildTriangleCells(latticePoints, rowLimit, columnLimit, border) ==
    LET built == tryAddTriangles([triangles |-> <<>>, adjacency |-> <<>>,
                                  edgeToTriangle |-> <<>>],
                                 latticePoints, border, triangleCalls(rowLimit, columnLimit))
    IN [triangles |-> built.triangles, adjacency |-> built.adjacency]

RECURSIVE sumCentroids(_, _)
\* the loop adding up the centroids of triangleIndices
sumCentroids(triangleIndices, triangles) ==
    IF triangleIndices = <<>> THEN <<0, 0, 1>>
    ELSE addPoint(sumCentroids(SubSeq(triangleIndices, 1, Len(triangleIndices) - 1), triangles),
                  triangles[triangleIndices[Len(triangleIndices)] + 1].centroid)

\* mutant of clusterCentroid: the mean is returned wherever it lies
clusterCentroidMeanOnly(triangleIndices, triangles, border) ==
    IF Len(triangleIndices) = 0 THEN <<0, 0, 1>>
    ELSE LET sum == sumCentroids(triangleIndices, triangles)
         IN pointOf(sum[1], sum[2], sum[3] * Len(triangleIndices))

\* the body of clusters.map(...) in computeClusterCentroids; the mean of
\* finite coordinates over a positive count is finite
clusterCentroid(triangleIndices, triangles, border) ==
    IF Len(triangleIndices) = 0 THEN <<0, 0, 1>>
    ELSE LET sum == sumCentroids(triangleIndices, triangles)
             centroid == pointOf(sum[1], sum[2], sum[3] * Len(triangleIndices))
         IN IF centroid[3] # 0 /\ isPointInBoundary(centroid, border) THEN centroid
            ELSE triangles[triangleIndices[1] + 1].centroid

computeClusterCentroids(clusters, triangles, border) ==
    [i \in 1..Len(clusters) |-> clusterCentroid(clusters[i], triangles, border)]

\* computeClusterAdjacency(triangleAdjacency, assignments): for every cluster
\* id the set of the other clusters that hold a neighbor of one of its
\* triangles; a cluster without an entry has the empty set
computeClusterAdjacency(triangleAdjacency, assigned, clusterCount) ==
    [clusterId \in 0..(clusterCount - 1) |->
        {other \in 0..(clusterCount - 1) :
            /\ other # clusterId
            /\ \E triangleIndex \in 1..Len(triangleAdjacency) :
                  \E n \in 1..Len(triangleAdjacency[triangleIndex]) :
                     {assigned[triangleIndex],
                      assigned[triangleAdjacency[triangleIndex][n] + 1]} = {clusterId, other}}]

RECURSIVE sumPoints(_, _)
\* sumX, sumY over the neighbors' working points
sumPoints(points, neighbors) ==
    IF neighbors = {} THEN <<0, 0, 1>>
    ELSE LET neighborId == CHOOSE id \in neighbors : TRUE
         IN addPoint(sumPoints(points, neighbors \ {neighborId}), points[neighborId + 1])

\* point + (average - point) * strength
relaxCandidate(point, average, strength) ==
    pointOf(point[1] * average[3] * strength.den
              + (average[1] * point[3] - point[1] * average[3]) * strength.num,
            point[2] * average[3] * strength.den
              + (average[2] * point[3] - point[2] * average[3]) * strength.num,
            point[3] * average[3] * strength.den)

\* mutant of relaxPoint: the candidate is taken wherever it lies
relaxPointUnchecked(points, neighbors, border, strength, clusterId) ==
    IF neighbors = {} THEN points[clusterId + 1]
    ELSE LET sum == sumPoints(points, neighbors)
             average == pointOf(sum[1], sum[2], sum[3] * Cardinality(neighbors))
         IN relaxCandidate(points[clusterId + 1], average, strength)

\* the body of working.map(...) in applyRelaxation; every neighbor id has a
\* working point
relaxPoint(points, neighbors, border, strength, clusterId) ==
    IF neighbors = {} THEN points[clusterId + 1]
    ELSE LET sum == sumPoints(points, neighbors)
             average == pointOf(sum[1], sum[2], sum[3] * Cardinality(neighbors))
             candidate == relaxCandidate(points[clusterId + 1], average, strength)
         IN IF isPointInBoundary(candidate, border) THEN candidate
            ELSE points[clusterId + 1]

\* one pass of applyRelaxation: next, computed from working
relaxPass(points, clusterAdjacency, border, strength) ==
    [i \in 1..Len(points) |->
        relaxPoint(points, clusterAdjacency[i - 1], border, strength, i - 1)]

(***************************************************************************)
(* State.  The options of the calls, the lattice, the locals of the        *)
(* region grower that is running (pc is its position), the number of       *)
(* draws taken from the random source, and the results.                    *)
(***************************************************************************)
VARIABLES width, height, pieceSize, border, lattice, pc,
          optMergeChance, mergeChance, assignments, clusterMembers, cursor,
          stack, members, shuffle, neighborIndex, draws, clustering,
          eligible, pairs, removedEdgeIds, pairing,
          cells, adjacency, centroids, seed, mergeProbability,
          halfEdges, tabConfig, tabEdge, working, passesLeft, weight

inputs == <<width, height, pieceSize, border, seed, mergeProbability>>
clusterLocals == <<mergeChance, clusterMembers, stack, members, neighborIndex>>
pairLocals == <<eligible, pairs, removedEdgeIds>>
results == <<clustering, pairing>>
\* the point generator's triangles, adjacency and cluster centroids
pointState == <<cells, adjacency, centroids>>
\* the relaxation's working points, remaining passes and weight
relaxState == <<working, passesLeft, weight>>
\* the tab generator's topology and configuration, and the edge of the last call
tabState == <<halfEdges, tabConfig, tabEdge>>
vars == <<inputs, lattice, pc, optMergeChance, assignments, cursor, shuffle, draws,
          clusterLocals, pairLocals, results, pointState, relaxState, tabState>>

\* before a tab generator is made and before addTab is called
NoTabConfig == [tabHeightRatio |-> 0, tabWidthRatio |-> 0, minEdgeLength |-> NaN, curviness |-> 0]
NoEdge == [heLeft |-> 0, heRight |-> 0]

NoLattice ==
    [ vertices |-> <<>>, edges |-> <<>>, triangles |-> <<>>,
      horizontalSpacing |-> 0, verticalSpacing |-> [num |-> 0, den |-> VerticalRatioDen],
      rowCount |-> 0, columnCount |-> 0 ]

\* centroids of the triangles of the smallest lattice (2 x 2 cells)
CandidatePoints ==
    LET l == createTownscaperLattice(0, 0, MinSpacing, {})
    IN {l.triangles[i].centroid : i \in 1..Len(l.triangles)}

\* borders given to the growers' lattices
Borders == {b \in SUBSET CandidatePoints : Cardinality(b) <= MaxInside}

\* areas <<width, height>> of the growers' lattices: 2 x 2 and 3 x 3 cells
Areas == {<<0, 0>>, <<1, 1>>}

\* piece sizes and borders given to the lattice builder alone
PieceSizes == {-MinSpacing, 0, MinSpacing, MinSpacing + 2}
LatticeBorders == {{}, CandidatePoints, {<<0, 0>>, <<0, 1>>, <<3, 2>>}}

\* merge probabilities given to the flood fill: within [0,1], and all kinds
MergeChances == {Finite(0, 1), Finite(1, 2), Finite(1, 1)}
AllMergeChances ==
    MergeChances \cup {Finite(-1, 2), Finite(3, 2), NaN, PlusInfinity, MinusInfinity}

Init ==
    /\ width = 0
    /\ height = 0
    /\ pieceSize = 0
    /\ border = {}
    /\ seed = 1
    /\ mergeProbability = 45
    /\ lattice = NoLattice
    /\ pc = "options"
    /\ optMergeChance = Finite(0, 1)
    /\ mergeChance = Finite(0, 1)
    /\ assignments = <<>>
    /\ clusterMembers = <<>>
    /\ cursor = 0
    /\ stack = <<>>
    /\ members = <<>>
    /\ shuffle = NoShuffle
    /\ neighborIndex = 0
    /\ draws = 0
    /\ clustering = NoClustering
    /\ eligible = <<>>
    /\ pairs = <<>>
    /\ removedEdgeIds = <<>>
    /\ pairing = NoPairing
    /\ cells = <<>>
    /\ adjacency = <<>>
    /\ centroids = <<>>
    /\ working = <<>>
    /\ passesLeft = 0
    /\ weight = Finite(0, 1)
    /\ halfEdges = <<>>
    /\ tabConfig = NoTabConfig
    /\ tabEdge = NoEdge

\* mutant of BuildLattice: the builder draws once from the random source
BuildLatticeDrawing(w, h, p, b) ==
    /\ pc = "options"
    /\ width' = w
    /\ height' = h
    /\ pieceSize' = p
    /\ border' = b
    /\ UNCHANGED <<seed, mergeProbability>>
    /\ lattice' = createTownscaperLattice(w, h, p, b)
    /\ draws' = draws + 1
    /\ pc' = "lattice"
    /\ UNCHANGED <<optMergeChance, assignments, cursor, shuffle,
                   clusterLocals, pairLocals, results, pointState, relaxState,
                   tabState>>

\* const lattice = createTownscaperLattice({ width, height, pieceSize, border, random })
BuildLattice(w, h, p, b) ==
    /\ pc = "options"
    /\ width' = w
    /\ height' = h
    /\ pieceSize' = p
    /\ border' = b
    /\ UNCHANGED <<seed, mergeProbability>>
    /\ lattice' = createTownscaperLattice(w, h, p, b)
    /\ pc' = "lattice"
    /\ UNCHANGED <<optMergeChance, assignments, cursor, shuffle, draws,
                   clusterLocals, pairLocals, results, pointState, relaxState,
                   tabState>>

\* clusterTownscaperLattice({ lattice, mergeChance: value, random }), up to
\* the triangle loop
ClusterStart(value) ==
    /\ pc = "lattice"
    /\ optMergeChance' = value
    /\ mergeChance' = clamp01(value)
    /\ assignments' = unassigned(Len(lattice.triangles))
    /\ clusterMembers' = <<>>
    /\ cursor' = 0
    /\ pc' = "cluster.for"
    /\ UNCHANGED <<inputs, pointState, relaxState, tabState, lattice, stack, members, shuffle, neighborIndex, draws,
                   pairLocals, results>>

\* one iteration of `for (const triangle of lattice.triangles)` up to the
\* while loop: skip the triangle, or seed a cluster from it
ClusterSeed ==
    /\ pc = "cluster.for"
    /\ cursor < Len(lattice.triangles)
    /\ LET triangle == lattice.triangles[cursor + 1]
       IN IF ~triangle.insideBoundary \/ assignments[triangle.id + 1] # -1
          THEN /\ cursor' = cursor + 1
               /\ UNCHANGED <<pc, assignments, stack, members>>
          ELSE /\ stack' = <<triangle.id>>
               /\ assignments' = [assignments EXCEPT ![triangle.id + 1] = Len(clusterMembers)]
               /\ members' = <<>>
               /\ pc' = "cluster.while"
               /\ UNCHANGED cursor
    /\ UNCHANGED <<inputs, pointState, relaxState, tabState,
                   lattice, optMergeChance, mergeChance, clusterMembers, shuffle,
                   neighborIndex, draws, pairLocals, results>>

\* the triangle loop is over: build the result
ClusterFinish ==
    /\ pc = "cluster.for"
    /\ cursor = Len(lattice.triangles)
    /\ clustering' = clusteringResult(lattice, clusterMembers, assignments)
    /\ pc' = "cluster.done"
    /\ UNCHANGED <<inputs, pointState, relaxState, tabState,
                   lattice, optMergeChance, assignments, cursor, shuffle, draws,
                   clusterLocals, pairLocals, pairing>>

\* top of `while (stack.length > 0)`: pop, record the member, filter the
\* neighbors and enter shuffleInPlace
ClusterPop ==
    /\ pc = "cluster.while"
    /\ stack # <<>>
    /\ LET current == stack[Len(stack)]
       IN /\ stack' = SubSeq(stack, 1, Len(stack) - 1)
          /\ members' = Append(members, current)
          /\ shuffle' = shuffleBegin(insideNeighbors(lattice, current))
    /\ neighborIndex' = 0
    /\ pc' = "cluster.neighbors"
    /\ UNCHANGED <<inputs, pointState, relaxState, tabState, lattice, optMergeChance, mergeChance, assignments,
                   clusterMembers, cursor, draws, pairLocals, results>>

\* mutant of ShuffleStep: the flood fill shuffles the neighbors list of the
\* lattice itself instead of a copy
ShuffleStepInPlace(r) ==
    /\ pc \in {"cluster.neighbors", "pair.eligible", "pair.neighbors"}
    /\ shuffle.index > 0
    /\ shuffle' = [values |-> shuffleSwap(shuffle.values, shuffle.index,
                                          swapIndexOf(r, shuffle.index)),
                   index |-> shuffle.index - 1]
    /\ lattice' = IF pc = "cluster.neighbors"
                  THEN [lattice EXCEPT !.triangles[members[Len(members)] + 1].neighbors =
                                            shuffle'.values]
                  ELSE lattice
    /\ draws' = draws + 1
    /\ UNCHANGED <<inputs, pointState, relaxState, tabState, pc, optMergeChance, assignments, cursor,
                   clusterLocals, pairLocals, results>>

\* one iteration of the loop of shuffleInPlace, drawing once
ShuffleStep(r) ==
    /\ pc \in {"cluster.neighbors", "pair.eligible", "pair.neighbors"}
    /\ shuffle.index > 0
    /\ shuffle' = [values |-> shuffleSwap(shuffle.values, shuffle.index,
                                          swapIndexOf(r, shuffle.index)),
                   index |-> shuffle.index - 1]
    /\ draws' = draws + 1
    /\ UNCHANGED <<inputs, pointState, relaxState, tabState, lattice, pc, optMergeChance, assignments, cursor,
                   clusterLocals, pairLocals, results>>

\* one iteration of `for (const neighborId of neighborIds)` on an assigned
\* neighbor: continue
ClusterSkipNeighbor ==
    /\ pc = "cluster.neighbors"
    /\ shuffle.index <= 0
    /\ neighborIndex < Len(shuffle.values)
    /\ assignments[shuffle.values[neighborIndex + 1] + 1] # -1
    /\ neighborIndex' = neighborIndex + 1
    /\ UNCHANGED <<inputs, pointState, relaxState, tabState, lattice, pc, optMergeChance, mergeChance, assignments,
                   clusterMembers, cursor, stack, members, shuffle, draws, pairLocals,
                   results>>

\* mutant of ClusterVisitNeighbor: a merged neighbor is pushed but not marked
\* as assigned
ClusterVisitNeighborUnmarked(r) ==
    /\ pc = "cluster.neighbors"
    /\ shuffle.index <= 0
    /\ neighborIndex < Len(shuffle.values)
    /\ LET neighborId == shuffle.values[neighborIndex + 1]
       IN /\ assignments[neighborId + 1] = -1
          /\ IF mergeAccepted(r, mergeChance)
             THEN /\ stack' = Append(stack, neighborId)
                  /\ UNCHANGED assignments
             ELSE UNCHANGED <<assignments, stack>>
    /\ draws' = draws + 1
    /\ neighborIndex' = neighborIndex + 1
    /\ UNCHANGED <<inputs, pointState, relaxState, tabState,
                   lattice, pc, optMergeChance, mergeChance, clusterMembers,
                   cursor, members, shuffle, pairLocals, results>>

\* one iteration of `for (const neighborId of neighborIds)` on an unassigned
\* neighbor: draw and merge it or not
ClusterVisitNeighbor(r) ==
    /\ pc = "cluster.neighbors"
    /\ shuffle.index <= 0
    /\ neighborIndex < Len(shuffle.values)
    /\ LET neighborId == shuffle.values[neighborIndex + 1]
       IN /\ assignments[neighborId + 1] = -1
          /\ IF mergeAccepted(r, mergeChance)
             THEN /\ assignments' = [assignments EXCEPT ![neighborId + 1] = Len(clusterMembers)]
                  /\ stack' = Append(stack, neighborId)
             ELSE UNCHANGED <<assignments, stack>>
    /\ draws' = draws + 1
    /\ neighborIndex' = neighborIndex + 1
    /\ UNCHANGED <<inputs, pointState, relaxState, tabState,
                   lattice, pc, optMergeChance, mergeChance, clusterMembers,
                   cursor, members, shuffle, pairLocals, results>>

\* the neighbor loop is over: back to the top of the while loop
ClusterNeighborsDone ==
    /\ pc = "cluster.neighbors"
    /\ shuffle.index <= 0
    /\ neighborIndex = Len(shuffle.values)
    /\ shuffle' = NoShuffle
    /\ neighborIndex' = 0
    /\ pc' = "cluster.while"
    /\ UNCHANGED <<inputs, pointState, relaxState, tabState, lattice, optMergeChance, mergeChance, assignments,
                   clusterMembers, cursor, stack, members, draws, pairLocals, results>>

\* the while loop is over: sort and store the members, next triangle
ClusterClose ==
    /\ pc = "cluster.while"
    /\ stack = <<>>
    /\ clusterMembers' = Append(clusterMembers, SortNumbers(members))
    /\ members' = <<>>
    /\ cursor' = cursor + 1
    /\ pc' = "cluster.for"
    /\ UNCHANGED <<inputs, pointState, relaxState, tabState,
                   lattice, optMergeChance, mergeChance, assignments, stack,
                   shuffle, neighborIndex, draws, pairLocals, results>>

\* pairTownscaperTriangles({ lattice, random }), up to shuffleInPlace(eligible)
PairStart ==
    /\ pc = "lattice"
    /\ assignments' = unassigned(Len(lattice.triangles))
    /\ shuffle' = shuffleBegin(eligibleOf(lattice))
    /\ pc' = "pair.eligible"
    /\ UNCHANGED <<inputs, pointState, relaxState, tabState, lattice, optMergeChance, cursor, draws, clusterLocals,
                   pairLocals, results>>

\* shuffleInPlace(eligible) has returned: enter the loop over eligible
PairEligibleShuffled ==
    /\ pc = "pair.eligible"
    /\ shuffle.index <= 0
    /\ eligible' = shuffle.values
    /\ shuffle' = NoShuffle
    /\ pairs' = <<>>
    /\ removedEdgeIds' = <<>>
    /\ cursor' = 0
    /\ pc' = "pair.for"
    /\ UNCHANGED <<inputs, pointState, relaxState, tabState,
                   lattice, optMergeChance, assignments, draws, clusterLocals,
                   results>>

\* one iteration of `for (const triangleId of eligible)` up to
\* shuffleInPlace(availableNeighbors): skip an assigned triangle, or filter
\* the neighbors of an unassigned one
PairVisit ==
    /\ pc = "pair.for"
    /\ cursor < Len(eligible)
    /\ LET triangleId == eligible[cursor + 1]
       IN IF assignments[triangleId + 1] # -1
          THEN /\ cursor' = cursor + 1
               /\ UNCHANGED <<pc, shuffle>>
          ELSE /\ shuffle' = shuffleBegin(availableNeighborsOf(lattice, assignments, triangleId))
               /\ pc' = "pair.neighbors"
               /\ UNCHANGED cursor
    /\ UNCHANGED <<inputs, pointState, relaxState, tabState,
                   lattice, optMergeChance, assignments, draws, clusterLocals,
                   pairLocals, results>>

\* shuffleInPlace(availableNeighbors) has returned: record the pair
PairCommit ==
    /\ pc = "pair.neighbors"
    /\ shuffle.index <= 0
    /\ LET pair == pairOf(Len(pairs), eligible[cursor + 1], partnerOf(shuffle.values), lattice)
       IN /\ assignments' = assignPair(assignments, pair)
          /\ removedEdgeIds' = IF pair.sharedEdgeId # Null
                               THEN Append(removedEdgeIds, pair.sharedEdgeId[1])
                               ELSE removedEdgeIds
          /\ pairs' = Append(pairs, pair)
    /\ shuffle' = NoShuffle
    /\ cursor' = cursor + 1
    /\ pc' = "pair.for"
    /\ UNCHANGED <<inputs, pointState, relaxState, tabState,
                   lattice, optMergeChance, draws, clusterLocals, eligible, results>>

\* the loop over eligible is over: sort removedEdgeIds and return
PairFinish ==
    /\ pc = "pair.for"
    /\ cursor = Len(eligible)
    /\ pairing' = pairingResult(pairs, assignments, removedEdgeIds)
    /\ pc' = "pair.done"
    /\ UNCHANGED <<inputs, pointState, relaxState, tabState,
                   lattice, optMergeChance, assignments, cursor, shuffle, draws,
                   clusterLocals, pairLocals, clustering>>

\* the steps of clusterTownscaperLattice after its entry
ClusterStep ==
    \/ ClusterSeed
    \/ ClusterFinish
    \/ ClusterPop
    \/ \E r \in RandomValues : ShuffleStep(r)
    \/ ClusterSkipNeighbor
    \/ \E r \in RandomValues : ClusterVisitNeighbor(r)
    \/ ClusterNeighborsDone
    \/ ClusterClose

\* the steps of pairTownscaperTriangles after its entry
PairStep ==
    \/ \E r \in RandomValues : ShuffleStep(r)
    \/ PairEligibleShuffled
    \/ PairVisit
    \/ PairCommit
    \/ PairFinish

Next ==
    \/ /\ pc = "options"
       /\ \E area \in Areas, b \in Borders : BuildLattice(area[1], area[2], MinSpacing, b)
    \/ \E value \in MergeChances : ClusterStart(value)
    \/ ClusterStep
    \/ PairStart
    \/ PairStep

Spec == Init /\ [][Next]_vars

\* the lattice builder alone, on a wider range of areas
LatticeNext ==
    \E w \in 0..MaxLatticeWidth, h \in 0..MaxLatticeHeight, p \in PieceSizes,
       b \in LatticeBorders : BuildLattice(w, h, p, b)

LatticeSpec == Init /\ [][LatticeNext]_vars

\* the flood fill on merge probabilities of all kinds
ClampNext ==
    \/ \E area \in Areas, b \in LatticeBorders :
          BuildLattice(area[1], area[2], MinSpacing, b)
    \/ \E value \in AllMergeChances : ClusterStart(value)
    \/ ClusterStep

ClampSpec == Init /\ [][ClampNext]_vars

(***************************************************************************)
(* The point generator: generatePoints up to computeClusterCentroids.  It  *)
(* keeps its triangles in cells, its adjacency lists in adjacency (they    *)
(* are shuffled in place), and uses assignments, clusterMembers (clusters),*)
(* cursor (startIndex), stack (queue), members, shuffle.index and          *)
(* neighborIndex as the locals of clusterTriangles.                        *)
(***************************************************************************)
\* the smallest lattice (2 x 2 cells), whose triangles make up the borders
SmallestLattice == createTownscaperLattice(0, 0, MinSpacing, {})

\* the vertices and the centroid of triangle number t of the smallest lattice
CellPoints(t) ==
    {pointOf(SmallestLattice.vertices[SmallestLattice.triangles[t].vertices[i] + 1].position[1],
             SmallestLattice.vertices[SmallestLattice.triangles[t].vertices[i] + 1].position[2],
             1) : i \in 1..3}
        \cup {pointOf(SmallestLattice.triangles[t].centroid[1],
                      SmallestLattice.triangles[t].centroid[2], 1)}

RECURSIVE SumOfCentroids(_)
\* the sum of the centroids of a set of triangles of the smallest lattice
SumOfCentroids(T) ==
    IF T = {} THEN <<0, 0, 1>>
    ELSE LET t == CHOOSE u \in T : TRUE
         IN addPoint(SumOfCentroids(T \ {t}),
                     pointOf(SmallestLattice.triangles[t].centroid[1],
                             SmallestLattice.triangles[t].centroid[2], 1))

\* the means of the centroids of two or more triangles of T
MeanPoints(T) ==
    { LET sum == SumOfCentroids(S)
      IN pointOf(sum[1], sum[2], sum[3] * Cardinality(S))
    : S \in {R \in SUBSET T : Cardinality(R) >= 2} }

\* the points half way between two of the centroids and means of T
HalfWayPoints(T) ==
    LET sites == {pointOf(SmallestLattice.triangles[t].centroid[1],
                          SmallestLattice.triangles[t].centroid[2], 1) : t \in T}
                     \cup MeanPoints(T)
    IN {relaxCandidate(p, q, Finite(1, 2)) : p \in sites, q \in sites}

\* borders given to the point generator: the vertices and centroids of at
\* most MaxCells triangles, with all the means of their centroids, all but
\* one, or none, or with the points half way between them; the empty
\* border; a border holding no lattice point; a border holding one vertex
PointBorders ==
    UNION { LET base == UNION {CellPoints(t) : t \in T}
                means == MeanPoints(T)
            IN {base \cup means} \cup {base} \cup {base \cup (means \ {m}) : m \in means}
                 \cup {base \cup means \cup HalfWayPoints(T), base \cup HalfWayPoints(T)}
          : T \in {R \in SUBSET (1..Len(SmallestLattice.triangles)) :
                      Cardinality(R) <= MaxCells} }
      \cup {{<<0, 0, 1>>},
             {pointOf(SmallestLattice.vertices[1].position[1],
                      SmallestLattice.vertices[1].position[2], 1)}}

\* merge probabilities (percent) given to the point generator
MergeProbabilities == {-20, 50, 150}

\* generatePoints(runtimeOpts) up to the triangle loop of clusterTriangles;
\* without points or without triangles it returns before clustering
PointStart(w, h, p, b, probability) ==
    /\ pc = "options"
    /\ width' = w
    /\ height' = h
    /\ pieceSize' = p
    /\ border' = b
    /\ UNCHANGED <<seed, mergeProbability>>
    /\ LET generated == generateLattice(w, h, p, b)
           built == buildTriangleCells(generated.points, generated.rowLimit,
                                       generated.columnLimit, b)
       IN IF Len(generated.points) = 0 \/ Len(built.triangles) = 0
          THEN /\ cells' = <<>>
               /\ adjacency' = <<>>
               /\ working' = [i \in 1..Len(generated.points) |-> generated.points[i].position]
               /\ pc' = "point.done"
               /\ UNCHANGED <<mergeChance, assignments>>
          ELSE /\ cells' = built.triangles
               /\ UNCHANGED working
               /\ adjacency' = built.adjacency
               /\ mergeChance' = pointMergeChance(probability)
               /\ assignments' = unassigned(Len(built.triangles))
               /\ pc' = "point.for"
    /\ clusterMembers' = <<>>
    /\ cursor' = 0
    /\ UNCHANGED <<lattice, optMergeChance, stack, members, shuffle, neighborIndex, draws,
                   pairLocals, results, centroids, passesLeft, weight, tabState>>

\* one iteration of `for (let startIndex = 0; ...)` up to the while loop:
\* skip an assigned triangle, or seed a cluster from it
PointSeed ==
    /\ pc = "point.for"
    /\ cursor < Len(cells)
    /\ IF assignments[cursor + 1] # -1
       THEN /\ cursor' = cursor + 1
            /\ UNCHANGED <<pc, assignments, stack, members>>
       ELSE /\ stack' = <<cursor>>
            /\ assignments' = [assignments EXCEPT ![cursor + 1] = Len(clusterMembers)]
            /\ members' = <<>>
            /\ pc' = "point.while"
            /\ UNCHANGED cursor
    /\ UNCHANGED <<inputs, pointState, relaxState, tabState, lattice, optMergeChance, mergeChance, clusterMembers,
                   shuffle, neighborIndex, draws, pairLocals, results>>

\* top of `while (queue.length > 0)`: pop, record the member and enter
\* shuffleInPlace(adjacency[currentIndex])
PointPop ==
    /\ pc = "point.while"
    /\ stack # <<>>
    /\ LET currentIndex == stack[Len(stack)]
       IN /\ stack' = SubSeq(stack, 1, Len(stack) - 1)
          /\ members' = Append(members, currentIndex)
          /\ shuffle' = [values |-> <<>>, index |-> Len(adjacency[currentIndex + 1]) - 1]
    /\ neighborIndex' = 0
    /\ pc' = "point.neighbors"
    /\ UNCHANGED <<inputs, pointState, relaxState, tabState, lattice, optMergeChance, mergeChance, assignments,
                   clusterMembers, cursor, draws, pairLocals, results>>

\* one iteration of the loop of shuffleInPlace on the adjacency list of the
\* current triangle, drawing once
PointShuffleStep(r) ==
    /\ pc = "point.neighbors"
    /\ shuffle.index > 0
    /\ adjacency' = [adjacency EXCEPT ![members[Len(members)] + 1] =
                        shuffleSwap(@, shuffle.index, swapIndexOf(r, shuffle.index))]
    /\ shuffle' = [shuffle EXCEPT !.index = shuffle.index - 1]
    /\ draws' = draws + 1
    /\ UNCHANGED <<inputs, lattice, pc, optMergeChance, assignments, cursor,
                   clusterLocals, pairLocals, results, cells, centroids, relaxState,
                   tabState>>

\* one iteration of `for (const neighborIndex of neighborIndices)` on an
\* assigned neighbor: continue
PointSkipNeighbor ==
    /\ pc = "point.neighbors"
    /\ shuffle.index <= 0
    /\ neighborIndex < Len(adjacency[members[Len(members)] + 1])
    /\ assignments[adjacency[members[Len(members)] + 1][neighborIndex + 1] + 1] # -1
    /\ neighborIndex' = neighborIndex + 1
    /\ UNCHANGED <<inputs, pointState, relaxState, tabState, lattice, pc, optMergeChance, mergeChance, assignments,
                   clusterMembers, cursor, stack, members, shuffle, draws, pairLocals,
                   results>>

\* one iteration of `for (const neighborIndex of neighborIndices)` on an
\* unassigned neighbor: draw and merge it or not
PointVisitNeighbor(r) ==
    /\ pc = "point.neighbors"
    /\ shuffle.index <= 0
    /\ neighborIndex < Len(adjacency[members[Len(members)] + 1])
    /\ LET neighbor == adjacency[members[Len(members)] + 1][neighborIndex + 1]
       IN /\ assignments[neighbor + 1] = -1
          /\ IF pointMergeAccepted(r, mergeChance)
             THEN /\ assignments' = [assignments EXCEPT ![neighbor + 1] = Len(clusterMembers)]
                  /\ stack' = Append(stack, neighbor)
             ELSE UNCHANGED <<assignments, stack>>
    /\ draws' = draws + 1
    /\ neighborIndex' = neighborIndex + 1
    /\ UNCHANGED <<inputs, pointState, relaxState, tabState, lattice, pc, optMergeChance, mergeChance,
                   clusterMembers, cursor, members, shuffle, pairLocals, results>>

\* the neighbor loop is over: back to the top of the while loop
PointNeighborsDone ==
    /\ pc = "point.neighbors"
    /\ shuffle.index <= 0
    /\ neighborIndex = Len(adjacency[members[Len(members)] + 1])
    /\ shuffle' = NoShuffle
    /\ neighborIndex' = 0
    /\ pc' = "point.while"
    /\ UNCHANGED <<inputs, pointState, relaxState, tabState, lattice, optMergeChance, mergeChance, assignments,
                   clusterMembers, cursor, stack, members, draws, pairLocals, results>>

\* the while loop is over: clusters.push(members), next startIndex
PointClose ==
    /\ pc = "point.while"
    /\ stack = <<>>
    /\ clusterMembers' = Append(clusterMembers, members)
    /\ members' = <<>>
    /\ cursor' = cursor + 1
    /\ pc' = "point.for"
    /\ UNCHANGED <<inputs, pointState, relaxState, tabState, lattice, optMergeChance, mergeChance, assignments,
                   stack, shuffle, neighborIndex, draws, pairLocals, results>>

\* clusterTriangles has returned: computeClusterCentroids(clusters, triangles, border)
PointCentroids ==
    /\ pc = "point.for"
    /\ cursor = Len(cells)
    /\ centroids' = computeClusterCentroids(clusterMembers, cells, border)
    /\ pc' = "point.centroids"
    /\ UNCHANGED <<inputs, lattice, optMergeChance, assignments, cursor, shuffle, draws,
                   clusterLocals, pairLocals, results, cells, adjacency, relaxState,
                   tabState>>

\* relaxationIterations and relaxationStrength given to the factory
RelaxationIterations == {Finite(-1, 1), Finite(0, 1), Finite(1, 3), Finite(1, 1), Finite(3, 2)}
RelaxationStrengths == {-10, 0, 50, 100, 150}

\* applyRelaxation(centroids, clusterAdjacency, border, relaxationPasses,
\* relaxationWeight) up to its loop; with no pass or no strength it returns
\* centroids, which generatePoints returns
PointRelaxStart(relaxationIterations, relaxationStrength) ==
    /\ pc = "point.centroids"
    /\ LET relaxationPasses == Max(0, roundOf(relaxationIterations))
           relaxationWeight == Finite(clampPercentage(relaxationStrength), 100)
       IN /\ passesLeft' = relaxationPasses
          /\ weight' = relaxationWeight
          /\ working' = centroids
          /\ pc' = IF relaxationPasses <= 0 \/ relaxationWeight.num <= 0
                   THEN "point.done" ELSE "point.relax"
    /\ UNCHANGED <<inputs, pointState, tabState, lattice, optMergeChance, assignments, cursor,
                   shuffle, draws, clusterLocals, pairLocals, results>>

\* one iteration of `for (let iteration = 0; iteration < iterations; ...)`
PointRelaxPass ==
    /\ pc = "point.relax"
    /\ passesLeft > 0
    /\ working' = relaxPass(working,
                            computeClusterAdjacency(adjacency, assignments, Len(clusterMembers)),
                            border, weight)
    /\ passesLeft' = passesLeft - 1
    /\ UNCHANGED <<inputs, pointState, tabState, weight, lattice, pc, optMergeChance,
                   assignments, cursor, shuffle, draws, clusterLocals, pairLocals, results>>

\* the loop is over: applyRelaxation returns working, generatePoints returns it
PointRelaxReturn ==
    /\ pc = "point.relax"
    /\ passesLeft = 0
    /\ pc' = "point.done"
    /\ UNCHANGED <<inputs, pointState, relaxState, tabState, lattice, optMergeChance,
                   assignments, cursor, shuffle, draws, clusterLocals, pairLocals, results>>

PointNext ==
    \/ /\ pc = "options"
       /\ \E area \in Areas, b \in PointBorders, probability \in MergeProbabilities :
             PointStart(area[1], area[2], MinSpacing, b, probability)
    \/ PointSeed
    \/ PointPop
    \/ \E r \in RandomValues : PointShuffleStep(r)
    \/ PointSkipNeighbor
    \/ \E r \in RandomValues : PointVisitNeighbor(r)
    \/ PointNeighborsDone
    \/ PointClose
    \/ PointCentroids
    \/ \E relaxationIterations \in RelaxationIterations,
          relaxationStrength \in RelaxationStrengths :
          PointRelaxStart(relaxationIterations, relaxationStrength)
    \/ PointRelaxPass
    \/ PointRelaxReturn

PointSpec == Init /\ [][PointNext]_vars

(***************************************************************************)
(* TownscaperDebugPage.ts: the page's state (width, height, pieceSize,     *)
(* mergeProbability, seed, border, lattice, clustering) and its handlers.  *)
(* A slider value is Number(slider.value): a finite number or NaN or an    *)
(* infinity.                                                               *)
(***************************************************************************)
\* createRectangleBorder(w, h) as isPointInBoundary sees it: the lattice-unit
\* points <<x, y>>, standing for (x * spacing / 6, y * verticalSpacing / 3),
\* that lie in the closed rectangle [0, w] x [0, h]
rectangleBorder(w, h, p) ==
    {point \in (-6..(6 * columnLimitOf(w, p))) \X (-3..(3 * rowLimitOf(h, p))) :
        /\ 0 <= point[1]
        /\ point[1] * spacingOf(p) <= 6 * w
        /\ 0 <= point[2]
        /\ point[2] * spacingOf(p) * VerticalRatioNum <= 3 * h * VerticalRatioDen}

\* mutant of sliderField: the value is stored without clamping
sliderFieldUnclamped(field, numeric, current) ==
    IF numeric.kind = "finite" THEN roundOf(numeric) ELSE current

\* the value handleSliderChange stores in state[field] for the slider value
\* numeric, state[field] being current
sliderField(field, numeric, current) ==
    LET assigned == IF numeric.kind = "finite" THEN numeric ELSE Finite(current, 1)
    IN IF field = "seed" THEN Max(0, roundOf(assigned))
       ELSE IF field = "mergeProbability" THEN Min(100, Max(0, roundOf(assigned)))
       ELSE assigned.num \div assigned.den

\* rebuildLattice on the page's fields: the lattice and the clustering it stores
rebuildLattice(w, h, p, seedValue, percent) ==
    LET random == mulberry32(seedValue)
        lat == createTownscaperLattice(w, h, p, rectangleBorder(w, h, p))
    IN [ lattice |-> lat,
         clustering |-> clusterTownscaperLattice(lat, Finite(percent, 100), random) ]

\* slider values: whole piece sizes; seeds and merge probabilities that are
\* negative, fractional or above the range; values that are not finite
PieceSizeValues == {Finite(MinSpacing, 1), Finite(MinSpacing + 1, 1), Finite(MinSpacing + 2, 1),
                    Finite(MinSpacing + 4, 1), NaN}
SeedValues == {Finite(-1, 1), Finite(0, 1), Finite(3, 2), Finite(3, 1), Finite(4, 1),
               PlusInfinity}
MergeProbabilityValues == {Finite(-5, 1), Finite(25, 1), Finite(101, 2), Finite(75, 1),
                           Finite(100, 1), Finite(150, 1), NaN, MinusInfinity}

\* the closure component's state on creation
PageInit ==
    /\ width = PageWidth
    /\ height = PageHeight
    /\ pieceSize = MinSpacing + 2
    /\ mergeProbability = 45
    /\ seed = 1
    /\ border = rectangleBorder(PageWidth, PageHeight, MinSpacing + 2)
    /\ lattice = NoLattice
    /\ clustering = NoClustering
    /\ pc = "page.new"
    /\ optMergeChance = Finite(0, 1)
    /\ mergeChance = Finite(0, 1)
    /\ assignments = <<>>
    /\ clusterMembers = <<>>
    /\ cursor = 0
    /\ stack = <<>>
    /\ members = <<>>
    /\ shuffle = NoShuffle
    /\ neighborIndex = 0
    /\ draws = 0
    /\ eligible = <<>>
    /\ pairs = <<>>
    /\ removedEdgeIds = <<>>
    /\ pairing = NoPairing
    /\ cells = <<>>
    /\ adjacency = <<>>
    /\ centroids = <<>>
    /\ working = <<>>
    /\ passesLeft = 0
    /\ weight = Finite(0, 1)
    /\ halfEdges = <<>>
    /\ tabConfig = NoTabConfig
    /\ tabEdge = NoEdge

\* oninit: rebuildLattice
OnInit ==
    /\ pc = "page.new"
    /\ lattice' = rebuildLattice(width, height, pieceSize, seed, mergeProbability).lattice
    /\ clustering' = rebuildLattice(width, height, pieceSize, seed, mergeProbability).clustering
    /\ pc' = "page"
    /\ UNCHANGED <<inputs, pointState, relaxState, tabState, optMergeChance, assignments, cursor, shuffle, draws,
                   clusterLocals, pairLocals, pairing>>

\* handleSliderChange(field)(event) with Number(slider.value) = numeric
HandleSliderChange(field, numeric) ==
    /\ pc = "page"
    /\ pieceSize' = IF field = "pieceSize" THEN sliderField(field, numeric, pieceSize)
                    ELSE pieceSize
    /\ seed' = IF field = "seed" THEN sliderField(field, numeric, seed) ELSE seed
    /\ mergeProbability' = IF field = "mergeProbability"
                           THEN sliderField(field, numeric, mergeProbability)
                           ELSE mergeProbability
    /\ border' = rectangleBorder(width, height, pieceSize')
    /\ lattice' = rebuildLattice(width, height, pieceSize', seed', mergeProbability').lattice
    /\ clustering' =
          rebuildLattice(width, height, pieceSize', seed', mergeProbability').clustering
    /\ UNCHANGED <<width, height, pc, pointState, relaxState, tabState, optMergeChance, assignments, cursor,
                   shuffle, draws, clusterLocals, pairLocals, pairing>>

PageNext ==
    \/ OnInit
    \/ \E numeric \in PieceSizeValues : HandleSliderChange("pieceSize", numeric)
    \/ \E numeric \in SeedValues : HandleSliderChange("seed", numeric)
    \/ \E numeric \in MergeProbabilityValues : HandleSliderChange("mergeProbability", numeric)

PageSpec == PageInit /\ [][PageNext]_vars

(***************************************************************************)
(* TriangleTabGenerator.ts: addTab on a topology of half-edges.  Origins   *)
(* have whole coordinates; the points of the segments are kept in          *)
(* 1/TabUnits of a unit, which makes every corner and apex exact:          *)
(* edgeDir * edgeLength is the edge vector.  Of a segment the type and the *)
(* end point are kept (p of a line, p3 of a bezier), not the two control   *)
(* points of a bezier.                                                     *)
(***************************************************************************)
\* the percentages are divided by 100 and the tab width by 2
TabUnits == 100 * 2

\* a configuration field that is not given
Undefined == [kind |-> "undefined", num |-> 0, den |-> 1]

\* const { tabHeightRatio = 20, tabWidthRatio = 30, minEdgeLength, curviness = 0 }
tabConfigOf(minEdgeLength, curviness) ==
    [tabHeightRatio |-> 20, tabWidthRatio |-> 30, minEdgeLength |-> minEdgeLength,
     curviness |-> curviness]

edgeVector(p0, p3) == <<p3[1] - p0[1], p3[2] - p0[2]>>
lengthSquared(vector) == vector[1] * vector[1] + vector[2] * vector[2]

\* the truthiness of an optional number
truthy(value) ==
    /\ value.kind \notin {"undefined", "NaN"}
    /\ ~(value.kind = "finite" /\ value.num = 0)

\* edgeLength < limit, edgeLength being the root of lengthSquared(vector)
shorterThan(vector, limit) ==
    \/ limit.kind = "+Infinity"
    \/ /\ limit.kind = "finite"
       /\ limit.num > 0
       /\ lengthSquared(vector) * limit.den * limit.den < limit.num * limit.num

\* mutant of skipsTab: minEdgeLength is not looked at
skipsTabZeroOnly(topology, e, config) ==
    \/ e.heLeft \notin DOMAIN topology
    \/ e.heRight \notin DOMAIN topology
    \/ lengthSquared(edgeVector(topology[e.heLeft].origin, topology[e.heRight].origin)) = 0

\* the early returns of addTab: a half-edge is not found, edgeLength < 1e-6
\* (a zero vector, the coordinates being whole), minEdgeLength && edgeLength <
\* minEdgeLength
skipsTab(topology, e, config) ==
    \/ e.heLeft \notin DOMAIN topology
    \/ e.heRight \notin DOMAIN topology
    \/ LET vector == edgeVector(topology[e.heLeft].origin, topology[e.heRight].origin)
       IN \/ lengthSquared(vector) = 0
          \/ /\ truthy(config.minEdgeLength)
             /\ shorterThan(vector, config.minEdgeLength)

\* createSegment: a line to endPoint, or a bezier to endPoint
createSegment(endPoint, config) ==
    [type |-> IF config.curviness = 0 THEN "line" ELSE "bezier", end |-> endPoint]

\* random() > 0.5 ? 1 : -1, for the draw r / RandomLevels
directionOf(r) == IF 2 * r > RandomLevels THEN 1 ELSE -1

\* the segments of the two half-edges, in 1/TabUnits
tabSegments(p0, p3, direction, config) ==
    LET vector == edgeVector(p0, p3)
        midPoint == <<TabUnits * p0[1] + (TabUnits \div 2) * vector[1],
                      TabUnits * p0[2] + (TabUnits \div 2) * vector[2]>>
        \* normalDir * tabHeight
        rise == <<-vector[2] * (TabUnits \div 100) * config.tabHeightRatio * direction,
                  vector[1] * (TabUnits \div 100) * config.tabHeightRatio * direction>>
        \* edgeDir * halfTabWidth
        run == <<vector[1] * (TabUnits \div 200) * config.tabWidthRatio,
                 vector[2] * (TabUnits \div 200) * config.tabWidthRatio>>
        apexPoint == <<midPoint[1] + rise[1], midPoint[2] + rise[2]>>
        apexPointTwin == <<midPoint[1] - rise[1], midPoint[2] - rise[2]>>
        corner1 == <<midPoint[1] - run[1], midPoint[2] - run[2]>>
        corner2 == <<midPoint[1] + run[1], midPoint[2] + run[2]>>
    IN [ he1Segments |-> << createSegment(corner1, config),
                            createSegment(apexPoint, config),
                            createSegment(corner2, config),
                            createSegment(<<TabUnits * p3[1], TabUnits * p3[2]>>, config) >>,
         he2Segments |-> << createSegment(corner2, config),
                            createSegment(apexPointTwin, config),
                            createSegment(corner1, config),
                            createSegment(<<TabUnits * p0[1], TabUnits * p0[2]>>, config) >> ]

\* a topology of four half-edges: 1-2 of length 5, 1-3 of length 0, 1-4 of
\* length 1; half-edge 5 is in no topology
TabTopology ==
    [id \in 1..4 |->
        [origin |-> CASE id = 1 -> <<0, 0>>
                      [] id = 2 -> <<3, 4>>
                      [] id = 3 -> <<0, 0>>
                      [] OTHER -> <<1, 0>>,
         segments |-> <<>>]]
TabEdges ==
    {[heLeft |-> pair[1], heRight |-> pair[2]] :
        pair \in {<<1, 2>>, <<2, 1>>, <<1, 3>>, <<1, 4>>, <<4, 2>>, <<1, 5>>, <<5, 2>>, <<5, 5>>,
                  <<2, 2>>}}
TabConfigs ==
    {tabConfigOf(minEdgeLength, curviness) :
        minEdgeLength \in {Undefined, NaN, Finite(0, 1), Finite(-1, 1), Finite(2, 1),
                           Finite(5, 1), Finite(11, 2)},
        curviness \in {0, 50}}

\* a generator made by the factory, and a topology without tabs
TabInit ==
    /\ width = 0
    /\ height = 0
    /\ pieceSize = MinSpacing
    /\ mergeProbability = 45
    /\ seed = 1
    /\ border = {}
    /\ lattice = NoLattice
    /\ clustering = NoClustering
    /\ pc = "tab"
    /\ optMergeChance = Finite(0, 1)
    /\ mergeChance = Finite(0, 1)
    /\ assignments = <<>>
    /\ clusterMembers = <<>>
    /\ cursor = 0
    /\ stack = <<>>
    /\ members = <<>>
    /\ shuffle = NoShuffle
    /\ neighborIndex = 0
    /\ draws = 0
    /\ eligible = <<>>
    /\ pairs = <<>>
    /\ removedEdgeIds = <<>>
    /\ pairing = NoPairing
    /\ cells = <<>>
    /\ adjacency = <<>>
    /\ centroids = <<>>
    /\ working = <<>>
    /\ passesLeft = 0
    /\ weight = Finite(0, 1)
    /\ halfEdges = TabTopology
    /\ tabConfig \in TabConfigs
    /\ tabEdge = NoEdge

\* addTab(edge, {topology, random}), r / RandomLevels being what random()
\* returns if it is called
AddTab(e, r) ==
    /\ pc = "tab"
    /\ draws < MaxTabDraws
    /\ tabEdge' = e
    /\ IF skipsTab(halfEdges, e, tabConfig)
       THEN UNCHANGED <<halfEdges, draws>>
       ELSE LET made == tabSegments(halfEdges[e.heLeft].origin, halfEdges[e.heRight].origin,
                                    directionOf(r), tabConfig)
            IN /\ draws' = draws + 1
               /\ halfEdges' = [halfEdges EXCEPT ![e.heLeft].segments = made.he1Segments,
                                                 ![e.heRight].segments = made.he2Segments]
    /\ UNCHANGED <<inputs, pointState, relaxState, tabConfig, lattice, pc, optMergeChance,
                   assignments, cursor, shuffle, clusterLocals, pairLocals, results>>

TabNext == \E e \in TabEdges, r \in RandomValues : AddTab(e, r)

TabSpec == TabInit /\ [][TabNext]_vars

(***************************************************************************)
(* Properties.                                                             *)
(***************************************************************************)
TriangleIds == 0..(Len(lattice.triangles) - 1)
InsideIds == {t \in TriangleIds : lattice.triangles[t + 1].insideBoundary}

\* the places <<group, position>> where triangle t is listed in a list of
\* groups (clusters or pairs)
Occurrences(groups, t) ==
    {o \in UNION {{<<g, i>> : i \in 1..Len(groups[g].triangleIds)} : g \in 1..Len(groups)} :
        groups[o[1]].triangleIds[o[2]] = t}

RECURSIVE Reachable(_)
\* the in-boundary triangles linked to a triangle of S by a chain of
\* in-boundary lattice neighbors
Reachable(S) ==
    LET next == S \cup {n \in InsideIds : \E t \in S : Includes(lattice.triangles[t + 1].neighbors, n)}
    IN IF next = S THEN S ELSE Reachable(next)

\* C1: after clusterTownscaperLattice returns, every in-boundary triangle is
\* listed exactly once, in exactly one cluster, and triangleToCluster names
\* that cluster; every out-of-boundary triangle is listed nowhere and maps
\* to -1.
FloodFillPartition ==
    pc = "cluster.done" =>
        /\ Len(clustering.triangleToCluster) = Len(lattice.triangles)
        /\ \A t \in TriangleIds :
              IF t \in InsideIds
              THEN /\ Cardinality(Occurrences(clustering.clusters, t)) = 1
                   /\ \A o \in Occurrences(clustering.clusters, t) :
                         clustering.triangleToCluster[t + 1] = clustering.clusters[o[1]].id
              ELSE /\ Occurrences(clustering.clusters, t) = {}
                   /\ clustering.triangleToCluster[t + 1] = -1

\* C1 witness: a finished flood fill with several clusters, one of them
\* merged from several triangles, next to out-of-boundary triangles.
FloodFillPartitionWitness ==
    /\ pc = "cluster.done"
    /\ Len(clustering.clusters) >= 2
    /\ \E c \in 1..Len(clustering.clusters) : Len(clustering.clusters[c].triangleIds) >= 2
    /\ InsideIds # TriangleIds

\* C2: after pairTownscaperTriangles returns, every in-boundary triangle is
\* listed exactly once, in exactly one pair, and triangleToPair names that
\* pair; every pair holds one or two triangles; every out-of-boundary
\* triangle is listed nowhere and maps to -1.
PairPartition ==
    pc = "pair.done" =>
        /\ Len(pairing.triangleToPair) = Len(lattice.triangles)
        /\ \A p \in 1..Len(pairing.pairs) : Len(pairing.pairs[p].triangleIds) \in {1, 2}
        /\ \A t \in TriangleIds :
              IF t \in InsideIds
              THEN /\ Cardinality(Occurrences(pairing.pairs, t)) = 1
                   /\ \A o \in Occurrences(pairing.pairs, t) :
                         pairing.triangleToPair[t + 1] = pairing.pairs[o[1]].id
              ELSE /\ Occurrences(pairing.pairs, t) = {}
                   /\ pairing.triangleToPair[t + 1] = -1

\* C2 witness: a finished pairing with a diamond and a single triangle.
PairPartitionWitness ==
    /\ pc = "pair.done"
    /\ \E p \in 1..Len(pairing.pairs) : Len(pairing.pairs[p].triangleIds) = 2
    /\ \E p \in 1..Len(pairing.pairs) : Len(pairing.pairs[p].triangleIds) = 1
    /\ InsideIds # TriangleIds

\* C4 (as claimed): with merge probability 0 the flood fill yields one
\* cluster per in-boundary triangle.
ZeroChanceSingletons ==
    (pc = "cluster.done" /\ mergeChance = Finite(0, 1)) =>
        /\ \A c \in 1..Len(clustering.clusters) : Len(clustering.clusters[c].triangleIds) = 1
        /\ Len(clustering.clusters) = Cardinality(InsideIds)

\* C5: with merge probability 1 every cluster is exactly one connected
\* component of the neighbor graph restricted to in-boundary triangles.
FullChanceComponents ==
    (pc = "cluster.done" /\ mergeChance = Finite(1, 1)) =>
        \A c \in 1..Len(clustering.clusters) :
            /\ clustering.clusters[c].triangleIds # <<>>
            /\ Range(clustering.clusters[c].triangleIds)
                 = Reachable({clustering.clusters[c].triangleIds[1]})

\* C5 witness: merge probability 1, a cluster of three or more triangles and
\* a second component.
FullChanceComponentsWitness ==
    /\ pc = "cluster.done"
    /\ mergeChance = Finite(1, 1)
    /\ Len(clustering.clusters) >= 2
    /\ \E c \in 1..Len(clustering.clusters) : Len(clustering.clusters[c].triangleIds) >= 3

SinglePairs == {p \in 1..Len(pairing.pairs) : Len(pairing.pairs[p].triangleIds) = 1}

\* C6 (as claimed): with an odd number of in-boundary triangles exactly one
\* pair holds a single triangle and every other pair holds two.
OddCountOneSingle ==
    (pc = "pair.done" /\ Cardinality(InsideIds) % 2 = 1) =>
        /\ Cardinality(SinglePairs) = 1
        /\ \A p \in 1..Len(pairing.pairs) : p \notin SinglePairs =>
              Len(pairing.pairs[p].triangleIds) = 2

\* C6 (amended): with an odd number of in-boundary triangles the number of
\* single-triangle pairs is odd, hence at least one, and every other pair
\* holds two triangles.
OddCountOddSingles ==
    (pc = "pair.done" /\ Cardinality(InsideIds) % 2 = 1) =>
        /\ Cardinality(SinglePairs) % 2 = 1
        /\ \A p \in 1..Len(pairing.pairs) : p \notin SinglePairs =>
              Len(pairing.pairs[p].triangleIds) = 2

\* C6 witness: a finished pairing of an odd number of triangles, with a
\* diamond and exactly one single.
OddCountOddSinglesWitness ==
    /\ pc = "pair.done"
    /\ Cardinality(InsideIds) % 2 = 1
    /\ Cardinality(SinglePairs) = 1
    /\ Len(pairing.pairs) >= 2

\* the non-null sharedEdgeIds of the pairs
SharedEdgeIds ==
    {pairing.pairs[p].sharedEdgeId[1] :
        p \in {q \in 1..Len(pairing.pairs) : pairing.pairs[q].sharedEdgeId # Null}}

\* C7: a two-triangle pair names a valid lattice edge whose incident
\* triangles are exactly the pair's two triangles, which are lattice
\* neighbors; a single-triangle pair names no edge; removedEdgeIds is the
\* ascending duplicate-free list of the named edges.
SharedEdgeSound ==
    pc = "pair.done" =>
        /\ \A p \in 1..Len(pairing.pairs) :
              LET pair == pairing.pairs[p]
              IN IF Len(pair.triangleIds) = 2
                 THEN /\ pair.sharedEdgeId # Null
                      /\ pair.sharedEdgeId[1] \in 0..(Len(lattice.edges) - 1)
                      /\ Len(lattice.edges[pair.sharedEdgeId[1] + 1].triangles) = 2
                      /\ Range(lattice.edges[pair.sharedEdgeId[1] + 1].triangles)
                           = Range(pair.triangleIds)
                      /\ pair.triangleIds[1] # pair.triangleIds[2]
                      /\ Includes(lattice.triangles[pair.triangleIds[1] + 1].neighbors,
                                  pair.triangleIds[2])
                 ELSE pair.sharedEdgeId = Null
        /\ \A i \in 1..(Len(pairing.removedEdgeIds) - 1) :
              pairing.removedEdgeIds[i] < pairing.removedEdgeIds[i + 1]
        /\ Range(pairing.removedEdgeIds) = SharedEdgeIds

\* C7 witness: a finished pairing with two diamonds, recorded in descending
\* order of their shared edges.
SharedEdgeSoundWitness ==
    /\ pc = "pair.done"
    /\ \E p, q \in 1..Len(pairing.pairs) :
          /\ p < q
          /\ pairing.pairs[p].sharedEdgeId # Null
          /\ pairing.pairs[q].sharedEdgeId # Null
          /\ pairing.pairs[q].sharedEdgeId[1] < pairing.pairs[p].sharedEdgeId[1]

\* the flood fill has been entered
ClusterEntered ==
    pc \in {"cluster.for", "cluster.while", "cluster.neighbors", "cluster.done"}

\* C8 (as claimed): every merge probability below 0 is used as 0 and every
\* merge probability above 1, finite or infinite, is used as 1.
ClampToNearest ==
    ClusterEntered =>
        /\ (optMergeChance.kind = "-Infinity"
              \/ (optMergeChance.kind = "finite" /\ optMergeChance.num < 0))
             => mergeChance = Finite(0, 1)
        /\ (optMergeChance.kind = "+Infinity"
              \/ (optMergeChance.kind = "finite" /\ optMergeChance.num > optMergeChance.den))
             => mergeChance = Finite(1, 1)

SharedVertices(a, b) ==
    Range(lattice.triangles[a + 1].vertices) \cap Range(lattice.triangles[b + 1].vertices)

\* C9: the neighbor relation is symmetric; B is a neighbor of A exactly when
\* A # B and they share a lattice edge (two vertices, and an edge record
\* listing both); a neighbors list has at most three entries, all distinct.
AdjacencySymmetry ==
    pc = "lattice" =>
        \A a \in TriangleIds :
            LET listed == Range(lattice.triangles[a + 1].neighbors)
            IN /\ Len(lattice.triangles[a + 1].neighbors) \in 0..3
               /\ Cardinality(listed) = Len(lattice.triangles[a + 1].neighbors)
               /\ \A b \in listed : Includes(lattice.triangles[b + 1].neighbors, a)
               /\ listed = {b \in TriangleIds : b # a /\ Cardinality(SharedVertices(a, b)) = 2}
               /\ listed = UNION {Range(lattice.edges[e].triangles) :
                                     e \in {f \in 1..Len(lattice.edges) :
                                               Includes(lattice.edges[f].triangles, a)}} \ {a}

\* C9 witness: a lattice with an interior triangle (three neighbors) and a
\* corner triangle (one neighbor).
AdjacencySymmetryWitness ==
    /\ pc = "lattice"
    /\ \E a \in TriangleIds : Len(lattice.triangles[a + 1].neighbors) = 3
    /\ \E a \in TriangleIds : Len(lattice.triangles[a + 1].neighbors) = 1

\* the three sides of a triangle, as unordered vertex pairs
Sides(t) ==
    {{lattice.triangles[t + 1].vertices[i], lattice.triangles[t + 1].vertices[(i % 3) + 1]} :
        i \in 1..3}

\* C10: every edge has one or two incident triangles; no two edge records
\* connect the same unordered vertex pair; every side of every triangle has
\* exactly one edge record, and that record lists the triangle.
EdgeIncidence ==
    pc = "lattice" =>
        /\ \A e \in 1..Len(lattice.edges) :
              /\ Len(lattice.edges[e].triangles) \in {1, 2}
              /\ Cardinality(Range(lattice.edges[e].triangles)) = Len(lattice.edges[e].triangles)
              /\ lattice.edges[e].id = e - 1
        /\ \A e, f \in 1..Len(lattice.edges) :
              Range(lattice.edges[e].vertices) = Range(lattice.edges[f].vertices) => e = f
        /\ \A t \in TriangleIds : \A side \in Sides(t) :
              /\ Cardinality(side) = 2
              /\ Cardinality({e \in 1..Len(lattice.edges) :
                                 Range(lattice.edges[e].vertices) = side}) = 1
              /\ \A e \in 1..Len(lattice.edges) :
                    Range(lattice.edges[e].vertices) = side
                        => Includes(lattice.edges[e].triangles, t)

\* C10 witness: a lattice with an edge shared by two triangles and an edge
\* of the rim, with one triangle.
EdgeIncidenceWitness ==
    /\ pc = "lattice"
    /\ \E e \in 1..Len(lattice.edges) : Len(lattice.edges[e].triangles) = 2
    /\ \E e \in 1..Len(lattice.edges) : Len(lattice.edges[e].triangles) = 1


\* C11: for every width >= 0, height >= 0 and every pieceSize, zero and
\* negative ones included, the spacing is at least the floor of 4 and the
\* lattice has at least one triangle (two per cell of at least 2 x 2 cells).
NeverZeroTriangles ==
    pc = "lattice" =>
        /\ lattice.horizontalSpacing = Max(pieceSize, MinSpacing)
        /\ lattice.columnCount >= 3
        /\ lattice.rowCount >= 3
        /\ Len(lattice.triangles) = 2 * (lattice.rowCount - 1) * (lattice.columnCount - 1)
        /\ Len(lattice.triangles) >= 1

\* C11 witness: a lattice built for an empty area with a negative pieceSize.
NeverZeroTrianglesWitness ==
    /\ pc = "lattice"
    /\ width = 0
    /\ height = 0
    /\ pieceSize < 0
    /\ lattice.horizontalSpacing = MinSpacing
    /\ Len(lattice.triangles) >= 1

\* width and height are both smaller than one spacing unit
SmallerThanSpacing ==
    /\ width < lattice.horizontalSpacing
    /\ height * lattice.verticalSpacing.den < lattice.verticalSpacing.num

\* C12 (as claimed): whenever width and height are both smaller than one
\* spacing unit the lattice has 2 x 2 cells.
SmallAreaTwoByTwo ==
    (pc = "lattice" /\ SmallerThanSpacing) =>
        /\ lattice.columnCount - 1 = 2
        /\ lattice.rowCount - 1 = 2
        /\ Len(lattice.triangles) = 8

\* C12 (amended): whenever width and height are both smaller than one
\* spacing unit the lattice has 2 cell columns if width = 0 and 3 otherwise,
\* and 2 cell rows if height = 0 and 3 otherwise; it has 2 x 2 cells only
\* for width = height = 0.
SmallAreaTwoOrThree ==
    (pc = "lattice" /\ SmallerThanSpacing) =>
        /\ lattice.columnCount - 1 = (IF width = 0 THEN 2 ELSE 3)
        /\ lattice.rowCount - 1 = (IF height = 0 THEN 2 ELSE 3)
        /\ Len(lattice.triangles) = 2 * (lattice.rowCount - 1) * (lattice.columnCount - 1)

\* C12 witness: a positive area smaller than one spacing unit both ways,
\* with 3 x 3 cells.
SmallAreaTwoOrThreeWitness ==
    /\ pc = "lattice"
    /\ SmallerThanSpacing
    /\ width > 0
    /\ height > 0
    /\ Len(lattice.triangles) = 18


\* a lattice without its insideBoundary and touchesBoundary flags
Structure(lat) ==
    [ vertices |-> [n \in 1..Len(lat.vertices) |->
                      << lat.vertices[n].id, lat.vertices[n].row, lat.vertices[n].column,
                         lat.vertices[n].position >>],
      edges |-> [n \in 1..Len(lat.edges) |->
                   << lat.edges[n].id, lat.edges[n].vertices, lat.edges[n].triangles >>],
      triangles |-> [n \in 1..Len(lat.triangles) |->
                       << lat.triangles[n].id, lat.triangles[n].vertices,
                          lat.triangles[n].centroid, lat.triangles[n].neighbors >>],
      extents |-> << lat.horizontalSpacing, lat.verticalSpacing, lat.rowCount,
                     lat.columnCount >> ]

\* C13: when the border contains no point the lattice has the vertices,
\* edges, triangles and adjacency it has for a border containing points,
\* with every vertex and triangle flagged outside; the flood fill and the
\* pairing then return no group and map every triangle to -1.
EmptyBorderComplete ==
    (border = {} /\ pc # "options") =>
        /\ \A n \in 1..Len(lattice.vertices) : ~lattice.vertices[n].insideBoundary
        /\ \A n \in 1..Len(lattice.triangles) : ~lattice.triangles[n].insideBoundary
        /\ pc = "lattice" =>
              /\ Structure(lattice)
                   = Structure(createTownscaperLattice(width, height, pieceSize,
                                                       CandidatePoints))
              /\ Len(lattice.triangles) > 0
        /\ pc = "cluster.done" =>
              /\ clustering.clusters = <<>>
              /\ clustering.triangleToCluster = unassigned(Len(lattice.triangles))
        /\ pc = "pair.done" =>
              /\ pairing.pairs = <<>>
              /\ pairing.removedEdgeIds = <<>>
              /\ pairing.triangleToPair = unassigned(Len(lattice.triangles))

\* C13 witness: the pairing has returned for a lattice of 18 triangles whose
\* border contains no point.
EmptyBorderCompleteWitness ==
    /\ border = {}
    /\ pc = "pair.done"
    /\ Len(lattice.triangles) = 18
    /\ Len(pairing.triangleToPair) = 18


\* C14: createTownscaperLattice never draws from the random source: the
\* number of draws taken from the source is the same after the call as
\* before it.
LatticeDrawsNothing == [][(pc = "options" /\ pc' = "lattice") => draws' = draws]_vars

\* C14 witness: the lattice has been built and no draw has been taken.
LatticeDrawsNothingWitness ==
    /\ pc = "lattice"
    /\ Len(lattice.triangles) > 0
    /\ border # {}
    /\ draws = 0

\* C15: the flood fill and the pairing leave the lattice unchanged: no step
\* taken after the lattice is built changes any of its lists or flags.
LatticeUnchanged == [][pc # "options" => lattice' = lattice]_vars

\* C15 witness: the flood fill has returned after shuffling neighbor lists
\* and the lattice is the one the builder returned.
LatticeUnchangedWitness ==
    /\ pc = "cluster.done"
    /\ draws >= 4
    /\ Len(clustering.clusters) >= 1
    /\ lattice = createTownscaperLattice(width, height, pieceSize, border)


\* the incident triangles of edge number e that are outside the border
OutsideIncident(e) ==
    {t \in Range(lattice.edges[e].triangles) : ~lattice.triangles[t + 1].insideBoundary}

\* C16: touchesBoundary is true exactly for the edges with only one incident
\* triangle or with an incident triangle that is not inside the border.
TouchesBoundaryIff ==
    pc = "lattice" =>
        \A e \in 1..Len(lattice.edges) :
            lattice.edges[e].touchesBoundary
                <=> (Len(lattice.edges[e].triangles) = 1 \/ OutsideIncident(e) # {})

\* C16 witness: a lattice with an edge between two inside triangles, an edge
\* between an inside and an outside triangle, and a rim edge of an inside
\* triangle.
TouchesBoundaryIffWitness ==
    /\ pc = "lattice"
    /\ \E e \in 1..Len(lattice.edges) :
          /\ Len(lattice.edges[e].triangles) = 2
          /\ OutsideIncident(e) = {}
          /\ ~lattice.edges[e].touchesBoundary
    /\ \E e \in 1..Len(lattice.edges) :
          /\ Len(lattice.edges[e].triangles) = 2
          /\ Cardinality(OutsideIncident(e)) = 1
          /\ lattice.edges[e].touchesBoundary
    /\ \E e \in 1..Len(lattice.edges) :
          /\ Len(lattice.edges[e].triangles) = 1
          /\ OutsideIncident(e) = {}
          /\ lattice.edges[e].touchesBoundary

\* C17 (as claimed): every edge stores its two vertex ids smaller first.
EdgeVerticesCanonical ==
    pc = "lattice" =>
        \A e \in 1..Len(lattice.edges) :
            lattice.edges[e].vertices[1] < lattice.edges[e].vertices[2]

\* C17 (amended): every edge stores its two distinct vertex ids in the
\* direction in which the first triangle listed in its triangles, the one
\* that created it, traverses that side.
EdgeVerticesTraversal ==
    pc = "lattice" =>
        \A e \in 1..Len(lattice.edges) :
            LET edge == lattice.edges[e]
                creator == lattice.triangles[edge.triangles[1] + 1]
            IN /\ Len(edge.vertices) = 2
               /\ edge.vertices[1] # edge.vertices[2]
               /\ \E i \in 1..3 :
                     edge.vertices = <<creator.vertices[i], creator.vertices[(i % 3) + 1]>>

\* C17 witness: a lattice with an edge stored larger vertex id first and an
\* edge stored smaller vertex id first.
EdgeVerticesTraversalWitness ==
    /\ pc = "lattice"
    /\ \E e \in 1..Len(lattice.edges) :
          lattice.edges[e].vertices[1] > lattice.edges[e].vertices[2]
    /\ \E e \in 1..Len(lattice.edges) :
          lattice.edges[e].vertices[1] < lattice.edges[e].vertices[2]


RECURSIVE ReachableWithin(_, _)
\* the triangles of M linked to a triangle of S by a chain of lattice
\* neighbors that stays within M
ReachableWithin(S, M) ==
    LET next == S \cup {n \in M : \E t \in S : Includes(lattice.triangles[t + 1].neighbors, n)}
    IN IF next = S THEN S ELSE ReachableWithin(next, M)

\* C18: every cluster of the flood fill is non-empty and connected: all its
\* members are linked to its first member by chains of lattice neighbors
\* that are members too.
ClustersConnected ==
    pc = "cluster.done" =>
        \A c \in 1..Len(clustering.clusters) :
            LET ids == clustering.clusters[c].triangleIds
            IN /\ ids # <<>>
               /\ ReachableWithin({ids[1]}, Range(ids)) = Range(ids)

\* C18 witness: merge probability 1/2, a cluster of three or more triangles
\* and a lattice neighbor of one of its members in another cluster.
ClustersConnectedWitness ==
    /\ pc = "cluster.done"
    /\ mergeChance = Finite(1, 2)
    /\ \E c \in 1..Len(clustering.clusters) :
          /\ Len(clustering.clusters[c].triangleIds) >= 3
          /\ \E t \in Range(clustering.clusters[c].triangleIds) :
                \E n \in Range(lattice.triangles[t + 1].neighbors) :
                    clustering.triangleToCluster[n + 1] \notin {-1, c - 1}

\* s is strictly ascending
Ascending(s) == \A i \in 1..(Len(s) - 1) : s[i] < s[i + 1]

\* C19: edge e is in the edgeIds of cluster c exactly when a triangle of e is
\* a member of c, exactly when c is in edgeToClusters[e]; edgeIds and
\* edgeToClusters[e] are strictly ascending and edgeToClusters[e] has at
\* most two entries.
ClusterEdgesConsistent ==
    pc = "cluster.done" =>
        /\ Len(clustering.edgeToClusters) = Len(lattice.edges)
        /\ \A e \in 1..Len(lattice.edges) :
              /\ Ascending(clustering.edgeToClusters[e])
              /\ Len(clustering.edgeToClusters[e]) <= 2
        /\ \A c \in 1..Len(clustering.clusters) :
              LET cluster == clustering.clusters[c]
              IN /\ Ascending(cluster.edgeIds)
                 /\ Range(cluster.edgeIds) \subseteq 0..(Len(lattice.edges) - 1)
                 /\ \A e \in 1..Len(lattice.edges) :
                       LET touched == \E t \in Range(lattice.edges[e].triangles) :
                                          Includes(cluster.triangleIds, t)
                       IN /\ Includes(cluster.edgeIds, e - 1) <=> touched
                          /\ Includes(clustering.edgeToClusters[e], cluster.id) <=> touched

\* C19 witness: a finished flood fill with an edge between two clusters, an
\* edge of one cluster only and an edge of no cluster.
ClusterEdgesConsistentWitness ==
    /\ pc = "cluster.done"
    /\ \E e \in 1..Len(lattice.edges) : Len(clustering.edgeToClusters[e]) = 2
    /\ \E e \in 1..Len(lattice.edges) :
          /\ Len(clustering.edgeToClusters[e]) = 1
          /\ Len(lattice.edges[e].triangles) = 2
    /\ \E e \in 1..Len(lattice.edges) : Len(clustering.edgeToClusters[e]) = 0


RECURSIVE SumOfMembers(_)
\* the sum of the centroids of a set of triangles of the point generator
SumOfMembers(T) ==
    IF T = {} THEN <<0, 0, 1>>
    ELSE LET t == CHOOSE u \in T : TRUE
         IN addPoint(SumOfMembers(T \ {t}), cells[t + 1].centroid)

\* the arithmetic mean of the centroids of the members of a cluster
MeanOfMembers(ids) ==
    LET sum == SumOfMembers(Range(ids))
    IN pointOf(sum[1], sum[2], sum[3] * Cardinality(Range(ids)))

\* C20: the site computed for a cluster is the arithmetic mean of the
\* centroids of its members when that mean is inside the border and the
\* centroid of its first member otherwise; every site is inside the border.
ClusterSiteInside ==
    pc = "point.centroids" =>
        /\ Len(centroids) = Len(clusterMembers)
        /\ \A i \in 1..Len(clusterMembers) :
              /\ clusterMembers[i] # <<>>
              /\ centroids[i] = IF isPointInBoundary(MeanOfMembers(clusterMembers[i]), border)
                                THEN MeanOfMembers(clusterMembers[i])
                                ELSE cells[clusterMembers[i][1] + 1].centroid
              /\ isPointInBoundary(centroids[i], border)

\* C20 witness: a cluster of three triangles whose mean is outside the
\* border, with the centroid of its first member as its site.
ClusterSiteInsideWitness ==
    /\ pc = "point.centroids"
    /\ \E i \in 1..Len(clusterMembers) :
          /\ Len(clusterMembers[i]) = 3
          /\ ~isPointInBoundary(MeanOfMembers(clusterMembers[i]), border)
          /\ centroids[i] = cells[clusterMembers[i][1] + 1].centroid
          /\ centroids[i] # MeanOfMembers(clusterMembers[i])


\* twice the signed area of triangle t, from the positions of its vertices
\* in the order it lists them
SignedArea(t) ==
    LET a == lattice.vertices[lattice.triangles[t + 1].vertices[1] + 1].position
        b == lattice.vertices[lattice.triangles[t + 1].vertices[2] + 1].position
        c == lattice.vertices[lattice.triangles[t + 1].vertices[3] + 1].position
    IN (b[1] - a[1]) * (c[2] - a[2]) - (b[2] - a[2]) * (c[1] - a[1])

\* the row of the first vertex of triangle t
FirstRow(t) == lattice.vertices[lattice.triangles[t + 1].vertices[1] + 1].row

\* C21: all triangles list their three distinct vertex ids with the same
\* winding: the signed area has the same sign, and is not zero, for every
\* triangle.
ConsistentWinding ==
    pc = "lattice" =>
        /\ \A t \in TriangleIds :
              /\ Len(lattice.triangles[t + 1].vertices) = 3
              /\ Cardinality(Range(lattice.triangles[t + 1].vertices)) = 3
              /\ SignedArea(t) # 0
        /\ \A t, u \in TriangleIds : (SignedArea(t) > 0) <=> (SignedArea(u) > 0)

\* C21 witness: a lattice with both triangles of a cell of an even row and
\* of a cell of an odd row.
ConsistentWindingWitness ==
    /\ pc = "lattice"
    /\ \E t \in TriangleIds : FirstRow(t) % 2 = 0 /\ t % 2 = 0
    /\ \E t \in TriangleIds : FirstRow(t) % 2 = 0 /\ t % 2 = 1
    /\ \E t \in TriangleIds : FirstRow(t) % 2 = 1 /\ t % 2 = 0
    /\ \E t \in TriangleIds : FirstRow(t) % 2 = 1 /\ t % 2 = 1


\* C22: the first vertex column is at x = -horizontalSpacing on even rows
\* and the first row at y = -verticalSpacing; the last vertex column is at
\* or beyond width + horizontalSpacing and the last row at or beyond
\* height + verticalSpacing.  A position <<x, y>> stands for the world point
\* (x * horizontalSpacing / 6, y * verticalSpacing / 3).
OverscanCovers ==
    pc = "lattice" =>
        \A n \in 1..Len(lattice.vertices) :
            LET vertex == lattice.vertices[n]
            IN /\ (vertex.column = 0 /\ vertex.row % 2 = 0) => vertex.position[1] = -6
               /\ vertex.row = 0 => vertex.position[2] = -3
               /\ vertex.column = lattice.columnCount - 1 =>
                     vertex.position[1] * lattice.horizontalSpacing
                         >= 6 * (width + lattice.horizontalSpacing)
               /\ vertex.row = lattice.rowCount - 1 =>
                     vertex.position[2] * lattice.verticalSpacing.num
                         >= 3 * (height * lattice.verticalSpacing.den
                                 + lattice.verticalSpacing.num)

\* C22 witness: an area whose width and height are not multiples of the
\* spacings, with the last column and row strictly beyond the overscan.
OverscanCoversWitness ==
    /\ pc = "lattice"
    /\ width % lattice.horizontalSpacing # 0
    /\ height > 0
    /\ \E n \in 1..Len(lattice.vertices) :
          /\ lattice.vertices[n].column = lattice.columnCount - 1
          /\ lattice.vertices[n].row = lattice.rowCount - 1
          /\ lattice.vertices[n].position[1] * lattice.horizontalSpacing
                > 6 * (width + lattice.horizontalSpacing)


\* C23 (as claimed): while the flood fill draws the permutation for the
\* triangle it expands, the list being permuted holds only neighbors that
\* are in-boundary and not yet assigned.
ShuffleOverUnassigned ==
    (pc = "cluster.neighbors" /\ shuffle.index > 0) =>
        \A i \in 1..Len(shuffle.values) :
            /\ lattice.triangles[shuffle.values[i] + 1].insideBoundary
            /\ assignments[shuffle.values[i] + 1] = -1


\* C24: the flood fill seeds clusters in ascending triangle id order: when a
\* cluster is closed its triangleIds are ascending, its smallest id is the
\* triangle it was started from and is larger than the smallest id of the
\* cluster closed before it; in the result clusters[i].id = i and
\* clusters[i].triangleIds is the list closed as number i.
SeedsAscend ==
    [][ /\ (pc = "cluster.while" /\ pc' = "cluster.for") =>
              LET ids == clusterMembers'[Len(clusterMembers')]
              IN /\ Len(clusterMembers') = Len(clusterMembers) + 1
                 /\ ids # <<>>
                 /\ Ascending(ids)
                 /\ ids[1] = lattice.triangles[cursor + 1].id
                 /\ Len(clusterMembers) > 0 =>
                       clusterMembers[Len(clusterMembers)][1] < ids[1]
        /\ pc' = "cluster.done" =>
              /\ Len(clustering'.clusters) = Len(clusterMembers)
              /\ \A c \in 1..Len(clusterMembers) :
                    /\ clustering'.clusters[c].id = c - 1
                    /\ clustering'.clusters[c].triangleIds = clusterMembers[c] ]_vars

\* C24 witness: a finished flood fill in which a cluster holds a triangle id
\* larger than the smallest id of the next cluster.
SeedsAscendWitness ==
    /\ pc = "cluster.done"
    /\ \E c \in 1..(Len(clustering.clusters) - 1) :
          LET ids == clustering.clusters[c].triangleIds
          IN /\ Len(ids) >= 2
             /\ ids[Len(ids)] > clustering.clusters[c + 1].triangleIds[1]
             /\ ids[1] < clustering.clusters[c + 1].triangleIds[1]


\* a and b hold the same values the same number of times
IsPermutation(a, b) ==
    /\ Len(a) = Len(b)
    /\ \A x \in Range(a) \cup Range(b) :
          Cardinality({i \in 1..Len(a) : a[i] = x}) = Cardinality({i \in 1..Len(b) : b[i] = x})

\* C25: shuffleInPlace starts at the last position of its list without a
\* draw, then takes one draw per position from the last down to the second,
\* each step leaving the list a permutation of what it was, and returns
\* without a draw once the position is the first (or the list is empty):
\* n - 1 draws for n >= 1 values and none for an empty list.
ShufflePermutes ==
    [][ shuffle' # shuffle =>
            \/ /\ shuffle = NoShuffle
               /\ shuffle'.index = Len(shuffle'.values) - 1
               /\ draws' = draws
            \/ /\ shuffle.index > 0
               /\ shuffle.index < Len(shuffle.values)
               /\ shuffle'.index = shuffle.index - 1
               /\ IsPermutation(shuffle'.values, shuffle.values)
               /\ draws' = draws + 1
            \/ /\ shuffle.index <= 0
               /\ shuffle' = NoShuffle
               /\ draws' = draws ]_vars

\* C25 witness: shuffleInPlace has finished on the list of three or more
\* eligible triangles, after one draw per position but the first, and the
\* list is in another order than it was.
ShufflePermutesWitness ==
    /\ pc = "pair.eligible"
    /\ shuffle.index = 0
    /\ Len(shuffle.values) >= 3
    /\ draws = Len(shuffle.values) - 1
    /\ shuffle.values # eligibleOf(lattice)
    /\ IsPermutation(shuffle.values, eligibleOf(lattice))


\* C26: after oninit and any sequence of slider changes the stored lattice
\* and clustering are those of a generation from the current width, height,
\* pieceSize, seed and mergeProbability with a newly seeded random source;
\* seed is a non-negative integer and mergeProbability an integer in
\* 0..100.
HistoryIndependent ==
    pc = "page" =>
        /\ seed \in Nat
        /\ mergeProbability \in 0..100
        /\ lattice = createTownscaperLattice(width, height, pieceSize,
                                             rectangleBorder(width, height, pieceSize))
        /\ clustering = clusterTownscaperLattice(lattice, Finite(mergeProbability, 100),
                                                 mulberry32(seed))

\* C26 witness: all three sliders have been moved and the stored clustering
\* has a merged cluster and a second cluster.
HistoryIndependentWitness ==
    /\ pc = "page"
    /\ pieceSize # MinSpacing + 2
    /\ seed # 1
    /\ mergeProbability \notin {0, 45, 100}
    /\ Len(clustering.clusters) >= 2
    /\ \E c \in 1..Len(clustering.clusters) : Len(clustering.clusters[c].triangleIds) >= 2


InsideNeighborIds(t) ==
    {n \in TriangleIds : /\ Includes(lattice.triangles[t + 1].neighbors, n)
                         /\ lattice.triangles[n + 1].insideBoundary}

\* C28: in the result of pairTownscaperTriangles no two single-triangle
\* pairs hold neighboring triangles: every in-boundary neighbor of a
\* triangle left single is in a two-triangle pair.
PairingMaximal ==
    pc = "pair.done" =>
        /\ \A p \in SinglePairs, q \in SinglePairs :
              p # q => ~Includes(lattice.triangles[pairing.pairs[p].triangleIds[1] + 1].neighbors,
                                 pairing.pairs[q].triangleIds[1])
        /\ \A p \in SinglePairs :
              \A n \in InsideNeighborIds(pairing.pairs[p].triangleIds[1]) :
                 \E q \in 1..Len(pairing.pairs) :
                    /\ Len(pairing.pairs[q].triangleIds) = 2
                    /\ Includes(pairing.pairs[q].triangleIds, n)

\* C28 witness: a finished pairing with two single triangles that both have
\* an in-boundary neighbor.
PairingMaximalWitness ==
    /\ pc = "pair.done"
    /\ Cardinality(SinglePairs) >= 2
    /\ \A p \in SinglePairs : InsideNeighborIds(pairing.pairs[p].triangleIds[1]) # {}


\* how often triangle t is on the expansion stack, and how often it was
\* popped: every pop appends to members, and members is moved to
\* clusterMembers when the cluster is closed
StackCount(t) == Cardinality({i \in 1..Len(stack) : stack[i] = t})
PopCount(t) ==
    Cardinality({i \in 1..Len(members) : members[i] = t})
    + Cardinality({pair \in (1..Len(clusterMembers)) \X (1..Len(lattice.triangles)) :
                      /\ pair[2] <= Len(clusterMembers[pair[1]])
                      /\ clusterMembers[pair[1]][pair[2]] = t})

\* a bound on the steps the flood fill still takes: two per remaining
\* iteration of the triangle loop, eight per in-boundary triangle not yet
\* popped, and what is left of the expansion under way
StepsLeft ==
    2 * (Len(lattice.triangles) - cursor)
    + 8 * (Cardinality(InsideIds) - Cardinality({t \in InsideIds : PopCount(t) > 0}))
    + CASE pc = "cluster.for" -> 3
        [] pc = "cluster.while" -> 2
        [] pc = "cluster.neighbors" ->
              3 + Max(0, shuffle.index) + (Len(shuffle.values) - neighborIndex)
        [] OTHER -> 0

\* C29: the flood fill terminates: until it returns its loops are within
\* their ranges, so that a step can be taken, and every step lowers a bound
\* on the steps left; no triangle is pushed a
\* second time, be it on the stack or already popped, and only assigned
\* in-boundary triangles are pushed; the stack is empty whenever a cluster
\* has been closed; at the end every in-boundary triangle was popped exactly
\* once.
FloodFillTerminates ==
    /\ [](ClusterEntered =>
            /\ \A t \in TriangleIds :
                  /\ StackCount(t) + PopCount(t) <= 1
                  /\ StackCount(t) + PopCount(t) = 1 <=> assignments[t + 1] # -1
                  /\ StackCount(t) + PopCount(t) = 1 => t \in InsideIds
            /\ pc \in {"cluster.for", "cluster.done"} => stack = <<>>
            /\ pc = "cluster.done" => \A t \in InsideIds : PopCount(t) = 1
            /\ StepsLeft >= 0
            /\ pc = "cluster.for" => cursor <= Len(lattice.triangles)
            /\ pc = "cluster.neighbors" =>
                  shuffle.index > 0 \/ neighborIndex <= Len(shuffle.values))
    /\ [][ClusterEntered => StepsLeft' < StepsLeft]_vars

\* C29 witness: a finished flood fill of at least three in-boundary
\* triangles in which a cluster took three expansion steps and merging was
\* refused at least once.
FloodFillTerminatesWitness ==
    /\ pc = "cluster.done"
    /\ Len(clusterMembers) >= 2
    /\ \E c \in 1..Len(clusterMembers) : Len(clusterMembers[c]) >= 3
    /\ \A t \in InsideIds : PopCount(t) = 1


\* the clusters other than c that hold a neighbor of a triangle of cluster c
NeighborClusters(c) ==
    {d \in 0..(Len(clusterMembers) - 1) :
        /\ d # c
        /\ \E i \in 1..Len(clusterMembers[c + 1]), j \in 1..Len(clusterMembers[d + 1]) :
              Includes(adjacency[clusterMembers[c + 1][i] + 1], clusterMembers[d + 1][j])}

RECURSIVE SumOfSites(_, _)
SumOfSites(sites, C) ==
    IF C = {} THEN <<0, 0, 1>>
    ELSE LET c == CHOOSE d \in C : TRUE
             rest == SumOfSites(sites, C \ {c})
         IN <<rest[1] * sites[c + 1][3] + sites[c + 1][1] * rest[3],
              rest[2] * sites[c + 1][3] + sites[c + 1][2] * rest[3],
              rest[3] * sites[c + 1][3]>>

\* point q is site p moved towards the mean of the sites of the clusters C
\* by the fraction share: q - p = (mean - p) * share, in whole numbers
MovedTowards(q, p, sites, C, share) ==
    LET sum == SumOfSites(sites, C)
        count == Cardinality(C)
    IN \A k \in 1..2 :
          (q[k] * p[3] - p[k] * q[3]) * sum[3] * count * share.den
             = (sum[k] * p[3] - p[k] * sum[3] * count) * share.num * q[3]

\* the in-boundary lattice points, which generatePoints returns when they
\* make no triangle
InsideLatticePoints ==
    {point \in border :
        \E row \in 0..rowLimitOf(height, pieceSize),
           column \in 0..columnLimitOf(width, pieceSize) :
           point = pointOf(basePoint(row, column)[1], basePoint(row, column)[2], 1)}

\* C30 (as claimed): every returned point lies inside the boundary and the
\* number of returned points equals the number of clusters.
ReturnedPointsPerCluster ==
    pc = "point.done" =>
        /\ \A i \in 1..Len(working) : isPointInBoundary(working[i], border)
        /\ Len(working) = Len(clusterMembers)

\* C30 (amended): every point generatePoints returns lies inside the
\* boundary.  When the lattice points make at least one triangle there is
\* one point per cluster: a relaxation pass replaces a site only by the
\* in-boundary point that lies the relaxation weight of the way from the
\* site to the mean of the neighboring clusters' sites of the previous
\* pass, and with no pass or no weight the cluster sites are returned
\* unchanged.  When they make no triangle no cluster is built and the
\* in-boundary lattice points are returned.
RelaxedPointsInside ==
    /\ [](pc \in {"point.relax", "point.done"} =>
            /\ \A i \in 1..Len(working) : isPointInBoundary(working[i], border)
            /\ IF cells # <<>>
               THEN Len(working) = Len(clusterMembers)
               ELSE /\ Range(working) = InsideLatticePoints
                    /\ Len(working) = Cardinality(InsideLatticePoints)
                    /\ clusterMembers = <<>>)
    /\ [][(pc = "point.centroids" /\ (passesLeft' = 0 \/ weight'.num = 0)) =>
            (pc' = "point.done" /\ working' = centroids)]_vars
    /\ [][pc = "point.relax" =>
            \A i \in 1..Len(working) :
               \/ working'[i] = working[i]
               \/ /\ NeighborClusters(i - 1) # {}
                  /\ MovedTowards(working'[i], working[i], working,
                                  NeighborClusters(i - 1), weight)
                  /\ isPointInBoundary(working'[i], border)]_vars

\* C30 witness: relaxation has moved the site of one cluster and has left
\* the site of another cluster that has a neighbor where it was.
RelaxedPointsInsideWitness ==
    /\ pc = "point.done"
    /\ cells # <<>>
    /\ \E i \in 1..Len(working), j \in 1..Len(working) :
          /\ working[i] # centroids[i]
          /\ working[j] = centroids[j]
          /\ NeighborClusters(j - 1) # {}

=============================================================================
